---------------------------- MODULE Spec2Model ----------------------------
(***************************************************************************)
(* Coach.AI (src/src/app/page.tsx): one React component that signs a team  *)
(* in against a hosted backend, keeps local copies of the plays, the games *)
(* and the ten most recent play calls of the active game, and records      *)
(* play calls through a yardage dialog.                                    *)
(*                                                                         *)
(* Text is modelled as a sequence of one-character strings, so that trim,  *)
(* the integer pattern, Number() and toFixed(1) are computed and not       *)
(* assumed.  A null id is 0 (ids are non-empty strings in the program, so  *)
(* `!id` is exactly `id = 0` here); a null object is the empty sequence    *)
(* and a present one a one-element sequence.                               *)
(*                                                                         *)
(* Every remote call is a task in `inflight`: it is issued ("sent") by a   *)
(* handler, handled by the backend at some later moment ("ok" or "err",    *)
(* with the rows read at that moment), and its response is delivered to    *)
(* the continuation of the handler at some still later moment.  The values *)
(* a continuation reads from its closure (activeGameId of the render the   *)
(* handler was started from) travel with the task.  State updates made by  *)
(* one continuation chain are rendered together (automatic batching), and  *)
(* the data-loading effect runs with the render that changes session or    *)
(* activeGameId.                                                           *)
(*                                                                         *)
(* The auth client calls the onAuthStateChange callback when a handler of  *)
(* the component has signed in or out, and also on its own account (token  *)
(* refreshed, session started or ended in another tab, session expired).   *)
(*                                                                         *)
(* The text fields that are only read by a click handler (email, password, *)
(* team name, new play name and icon, new opponent and date) are inputs of *)
(* that handler's action.                                                  *)
(***************************************************************************)
EXTENDS Integers, Sequences, FiniteSets, TLC

VARIABLES
    env,            \* [url, key]: NEXT_PUBLIC_SUPABASE_URL / _ANON_KEY present
    mounted,        \* the component has rendered
    loading,        \* useState(true)
    session,        \* <<>> or <<user id>>
    plays,          \* local plays
    games,          \* local games
    activeGameId,   \* 0 = null
    recentCalls,    \* local recent calls
    yardageDialog,  \* [open, play, yards]
    authStore,      \* the auth client's stored session: <<>> or <<user id>>
    dbPlays,        \* table plays, in insertion order
    dbGames,        \* table games, in insertion order
    dbCalls,        \* table play_calls, in creation order
    dbSeq,          \* [play, game, call]: ids handed out so far
    dbGone,         \* history: the call records the cascade of a play's deletion removed
    anyError,       \* history: some remote call has come back with an error
    inflight,       \* remote calls issued and not yet delivered, in issue order
    last,           \* the last step, when a click or the end of an await: [op, toasts, sent, input]
    ops,            \* clicks counted against MaxOps so far
    stats           \* useMemo(perPlayStats, [recentCalls]): [fresh, rows]

vars == <<env, mounted, loading, session, plays, games, activeGameId, recentCalls,
          yardageDialog, authStore, dbPlays, dbGames, dbCalls, dbSeq, dbGone, anyError,
          inflight, last, ops, stats>>

clientVars == <<session, plays, games, activeGameId, recentCalls, yardageDialog>>
dbVars == <<authStore, dbPlays, dbGames, dbCalls, dbSeq, dbGone>>

---------------------------------------------------------------------------
(* Bounds of the model *)

MaxOps == 1         \* clicks that start a handler with a remote call, and calls of the
                    \* auth callback that no handler of the component caused
MaxInFlight == 4    \* remote calls in flight at once
MaxYardLen == 3     \* length of a drawn yardage text (SpecYards)
MaxStatLen == 4     \* length of a drawn recent-calls list (SpecStats)
DialogClicks == 2   \* clicks on Save and Delete in the open dialog (SpecDialog)
RecentClicks == 2   \* clicks on a game, Save and Delete (SpecRecent)
SaveClicks == 11    \* clicks on Save, Delete and a game, and auth events (SpecSave)
SaveBacklog == 1    \* requests outstanding at most when one of them is made (SpecSave)
EarlyClicks == 2    \* the clicks among which a game is selected, the play deleted or
                    \* the session ended (SpecSave)

(* Program constants *)

RecentLimit == 10   \* .limit(10)
MinYards == -99
MaxYards == 99

---------------------------------------------------------------------------
(* Text *)

Digits == <<"0", "1", "2", "3", "4", "5", "6", "7", "8", "9">>

\* Characters in increasing code order (the part of Unicode the model uses):
\* tab, line feed, vertical tab, form feed, carriage return, space, ...,
\* U+00A0, U+1680, U+FEFF.
CharOrder == <<"\t", "\n", "", "\f", "\r", " ", "-", ".",
               "0", "1", "2", "3", "4", "5", "6", "7", "8", "9",
               "I", "R", "S", "a", "e", "m", "o", "p", "s", "w",
               " ", " ", "﻿">>

CharCode(c) == CHOOSE i \in 1..Len(CharOrder) : CharOrder[i] = c

IsDigit(c) == \E i \in 1..Len(Digits) : Digits[i] = c

DigitVal(c) == (CHOOSE i \in 1..Len(Digits) : Digits[i] = c) - 1

\* The WhiteSpace and LineTerminator characters that trim() removes: tab, line
\* feed, vertical tab, form feed, carriage return, space, U+00A0, U+1680 and
\* U+FEFF.  U+2000..U+200A, U+2028, U+2029, U+202F, U+205F and U+3000 are
\* removed too; a string of a module cannot spell them, so no text of the
\* model contains them.
WhiteSpace == {"\t", "\n", "", "\f", "\r", " ", " ", " ", "﻿"}

IsSpace(c) == c \in WhiteSpace

\* The positions of s that hold a character trim() keeps.
Kept(s) == {i \in 1..Len(s) : ~IsSpace(s[i])}

TrimStart(s) ==
    IF Kept(s) = {} THEN <<>>
    ELSE SubSeq(s, CHOOSE i \in Kept(s) : \A j \in Kept(s) : i <= j, Len(s))

TrimEnd(s) ==
    IF Kept(s) = {} THEN <<>>
    ELSE SubSeq(s, 1, CHOOSE i \in Kept(s) : \A j \in Kept(s) : i >= j)

\* String.prototype.trim
Trim(s) == TrimEnd(TrimStart(s))

\* /^-?\d+$/.test(raw)
IntegerPattern(raw) ==
    LET body == IF raw # <<>> /\ Head(raw) = "-" THEN Tail(raw) ELSE raw
    IN  Len(body) >= 1 /\ \A i \in 1..Len(body) : IsDigit(body[i])

\* A digit text without its leading zeros.
Significant(ds) ==
    LET nonzero == {i \in 1..Len(ds) : ds[i] # "0"}
    IN  IF nonzero = {} THEN <<>>
        ELSE SubSeq(ds, CHOOSE i \in nonzero : \A j \in nonzero : i <= j, Len(ds))

RECURSIVE DigitsValue(_)
DigitsValue(ds) ==
    IF ds = <<>> THEN 0
    ELSE 10 * DigitsValue(SubSeq(ds, 1, Len(ds) - 1)) + DigitVal(ds[Len(ds)])

\* The value of a digit text, exact below 10^9 and 10^9 from there on: the
\* program tells the values of -99..99 apart and nothing beyond them.
Magnitude(ds) ==
    IF Len(Significant(ds)) > 9 THEN 1000000000 ELSE DigitsValue(Significant(ds))

\* Number(raw) for a text the integer pattern accepts.  Number("-0") is -0,
\* which is sent to the backend as the integer 0.
ToNumber(raw) ==
    IF Head(raw) = "-" THEN 0 - Magnitude(Tail(raw)) ELSE Magnitude(raw)

\* The digits of 2^1024 - 2^970, halfway between the largest double and
\* 2^1024: the least integer that Number() rounds to Infinity.
InfinityDigits ==
    <<"1", "7", "9", "7", "6", "9", "3", "1", "3", "4", "8", "6", "2", "3", "1", "5", "8", "0", "7", "9",
      "3", "7", "2", "8", "9", "7", "1", "4", "0", "5", "3", "0", "3", "4", "1", "5", "0", "7", "9", "9",
      "3", "4", "1", "3", "2", "7", "1", "0", "0", "3", "7", "8", "2", "6", "9", "3", "6", "1", "7", "3",
      "7", "7", "8", "9", "8", "0", "4", "4", "4", "9", "6", "8", "2", "9", "2", "7", "6", "4", "7", "5",
      "0", "9", "4", "6", "6", "4", "9", "0", "1", "7", "9", "7", "7", "5", "8", "7", "2", "0", "7", "0",
      "9", "6", "3", "3", "0", "2", "8", "6", "4", "1", "6", "6", "9", "2", "8", "8", "7", "9", "1", "0",
      "9", "4", "6", "5", "5", "5", "5", "4", "7", "8", "5", "1", "9", "4", "0", "4", "0", "2", "6", "3",
      "0", "6", "5", "7", "4", "8", "8", "6", "7", "1", "5", "0", "5", "8", "2", "0", "6", "8", "1", "9",
      "0", "8", "9", "0", "2", "0", "0", "0", "7", "0", "8", "3", "8", "3", "6", "7", "6", "2", "7", "3",
      "8", "5", "4", "8", "4", "5", "8", "1", "7", "7", "1", "1", "5", "3", "1", "7", "6", "4", "4", "7",
      "5", "7", "3", "0", "2", "7", "0", "0", "6", "9", "8", "5", "5", "5", "7", "1", "3", "6", "6", "9",
      "5", "9", "6", "2", "2", "8", "4", "2", "9", "1", "4", "8", "1", "9", "8", "6", "0", "8", "3", "4",
      "9", "3", "6", "4", "7", "5", "2", "9", "2", "7", "1", "9", "0", "7", "4", "1", "6", "8", "4", "4",
      "4", "3", "6", "5", "5", "1", "0", "7", "0", "4", "3", "4", "2", "7", "1", "1", "5", "5", "9", "6",
      "9", "9", "5", "0", "8", "0", "9", "3", "0", "4", "2", "8", "8", "0", "1", "7", "7", "9", "0", "4",
      "1", "7", "4", "4", "9", "7", "7", "9", "2">>

\* Of two digit texts of one length without leading zeros, a denotes less than b.
DigitsBelow(a, b) ==
    \E i \in 1..Len(a) :
        /\ DigitVal(a[i]) < DigitVal(b[i])
        /\ \A j \in 1..(i - 1) : a[j] = b[j]

\* Number.isFinite(yards) for yards = Number(raw): the value decides, so
\* leading zeros do not count.
NumberIsFinite(raw) ==
    LET m == Significant(IF Head(raw) = "-" THEN Tail(raw) ELSE raw)
    IN  \/ Len(m) < Len(InfinityDigits)
        \/ Len(m) = Len(InfinityDigits) /\ DigitsBelow(m, InfinityDigits)

\* The range check of recordPlayCall.
YardsInRangeMutant(yards) == yards >= MinYards /\ yards <= MaxYards + 1

YardsInRange(yards) == ~(yards < MinYards \/ yards > MaxYards)

RECURSIVE NatToText(_)
NatToText(n) ==
    IF n < 10 THEN <<Digits[n + 1]>>
    ELSE NatToText(n \div 10) \o <<Digits[(n % 10) + 1]>>

Abs(n) == IF n < 0 THEN 0 - n ELSE n

\* (sum / count).toFixed(1).  The quotient of two integers with count <= 10 is
\* either no tie at one decimal or a multiple of 1/4, which a double holds
\* exactly, so toFixed's "n for which n / 10 - x is as close to zero as
\* possible, the larger n on a tie" is computed here on the exact quotient.
ToFixed1Mutant(sum, count) ==
    LET n == (10 * Abs(sum)) \div count
        digits == NatToText(n \div 10) \o <<".">> \o <<Digits[(n % 10) + 1]>>
    IN  IF sum < 0 THEN <<"-">> \o digits ELSE digits

ToFixed1(sum, count) ==
    LET n == (20 * Abs(sum) + count) \div (2 * count)
        digits == NatToText(n \div 10) \o <<".">> \o <<Digits[(n % 10) + 1]>>
    IN  IF sum < 0 THEN <<"-">> \o digits ELSE digits

\* Lexicographic order of two texts by character code.
RECURSIVE TextLess(_, _)
TextLess(a, b) ==
    IF b = <<>> THEN FALSE
    ELSE IF a = <<>> THEN TRUE
    ELSE IF Head(a) # Head(b) THEN CharCode(Head(a)) < CharCode(Head(b))
    ELSE TextLess(Tail(a), Tail(b))

---------------------------------------------------------------------------
(* perPlayStats *)

\* The Map of perPlayStats as a sequence of [name, count, sum] in insertion order.
RECURSIVE StatsMap(_, _)
StatsMap(calls, m) ==
    IF calls = <<>> THEN m
    ELSE LET r == Head(calls)
             k == r.play_name
             m1 == IF \E i \in 1..Len(m) : m[i].name = k
                   THEN m
                   ELSE Append(m, [name |-> k, count |-> 0, sum |-> 0])
             m2 == [i \in 1..Len(m1) |->
                       IF m1[i].name = k
                       THEN [m1[i] EXCEPT !.count = @ + 1, !.sum = @ + r.yards]
                       ELSE m1[i]]
         IN  StatsMap(Tail(calls), m2)

perPlayStats(calls) ==
    LET m == StatsMap(calls, <<>>)
    IN  [i \in 1..Len(m) |->
            [name |-> m[i].name, count |-> m[i].count,
             avg |-> ToFixed1(m[i].sum, m[i].count)]]

\* The memoised value once the render after setRecentCalls has computed it.
Memo(calls) == [fresh |-> TRUE, rows |-> perPlayStats(calls)]

---------------------------------------------------------------------------
(* The environment and the backend *)

PLAY_ICONS == <<"inside-run", "outside-run", "quick-pass", "screen", "deep-shot", "qb-keep">>

User == "u1"
ErrMsg == "backend error"

\* useMemo(() => createClient(...)): null unless both parameters are set.
SupabaseMutant(e) == IF ~e.url THEN <<>> ELSE <<"client">>

Supabase(e) == IF ~e.url \/ ~e.key THEN <<>> ELSE <<"client">>

supabase == Supabase(env)

NoArg == [id |-> 0, gid |-> 0, text |-> <<>>, icon |-> "", date |-> 0, yards |-> 0, team |-> <<>>,
          user |-> ""]

\* A remote call as issued: ag is activeGameId in the closure of the handler,
\* auth whether the auth client holds a session (whose token the call carries).
\* `old` is history: a later request for the same collection has already been
\* answered and applied.  The component reads none of it.
Task(op, ag, arg, auth) ==
    [op |-> op, st |-> "sent", ag |-> ag, auth |-> auth, arg |-> arg, res |-> <<>>,
     old |-> FALSE]

\* The requests that read each collection: the stand-alone refresh and the
\* ones a handler starts after its write.
PlaysRefreshes == {"refreshPlays", "addPlay.refresh", "deletePlay.refreshPlays"}
GamesRefreshes == {"refreshGames", "addGame.refresh"}
RecentRefreshes == {"refreshRecent", "deletePlay.refreshRecent", "recordPlayCall.refresh"}

\* The queue once response i of one of `reads` is applied: the requests for the
\* same collection that were issued before it are now old.
Superseded(q, i, reads) ==
    [j \in 1..Len(q) |-> IF j < i /\ q[j].op \in reads THEN [q[j] EXCEPT !.old = TRUE]
                                                        ELSE q[j]]

Remove(s, i) == SubSeq(s, 1, i - 1) \o SubSeq(s, i + 1, Len(s))

Reverse(s) == [i \in 1..Len(s) |-> s[Len(s) + 1 - i]]

\* order("name"): plays by name ascending (equal names keep insertion order).
RECURSIVE InsertByName(_, _)
InsertByName(r, s) ==
    IF s = <<>> THEN <<r>>
    ELSE IF TextLess(r.name, Head(s).name) THEN <<r>> \o s
    ELSE <<Head(s)>> \o InsertByName(r, Tail(s))

RECURSIVE SortByName(_)
SortByName(s) ==
    IF s = <<>> THEN <<>>
    ELSE InsertByName(s[Len(s)], SortByName(SubSeq(s, 1, Len(s) - 1)))

\* order("game_date", {ascending: false}) (equal dates keep insertion order).
RECURSIVE InsertByDateDesc(_, _)
InsertByDateDesc(r, s) ==
    IF s = <<>> THEN <<r>>
    ELSE IF r.game_date > Head(s).game_date THEN <<r>> \o s
    ELSE <<Head(s)>> \o InsertByDateDesc(r, Tail(s))

RECURSIVE SortByDateDesc(_)
SortByDateDesc(s) ==
    IF s = <<>> THEN <<>>
    ELSE InsertByDateDesc(s[Len(s)], SortByDateDesc(SubSeq(s, 1, Len(s) - 1)))

\* eq("game_id", g)
RECURSIVE CallsOfGame(_, _)
CallsOfGame(s, g) ==
    IF s = <<>> THEN <<>>
    ELSE (IF Head(s).game_id = g THEN <<Head(s)>> ELSE <<>>) \o CallsOfGame(Tail(s), g)

\* delete().eq("id", id) on plays, and the cascade to the play's calls
RECURSIVE WithoutPlay(_, _)
WithoutPlay(s, id) ==
    IF s = <<>> THEN <<>>
    ELSE (IF Head(s).id # id THEN <<Head(s)>> ELSE <<>>) \o WithoutPlay(Tail(s), id)

\* The call records of a play.
CallsOfPlay(s, id) == {s[k] : k \in {j \in 1..Len(s) : s[j].play_id = id}}

RECURSIVE WithoutCallsOf(_, _)
WithoutCallsOf(s, id) ==
    IF s = <<>> THEN <<>>
    ELSE (IF Head(s).play_id # id THEN <<Head(s)>> ELSE <<>>) \o WithoutCallsOf(Tail(s), id)

\* from("plays").select("id,name,icon").order("name")
SelectPlays == SortByName(dbPlays)

\* from("games").select("id,opponent,game_date").order("game_date", {ascending: false})
SelectGames == SortByDateDesc(dbGames)

\* from("play_calls_view").select(...).eq("game_id", g)
\*   .order("created_at", {ascending: false}).limit(10)
LimitMutant(s, n) == s

\* limit(n)
Limit(s, n) == SubSeq(s, 1, IF Len(s) < n THEN Len(s) ELSE n)

SelectRecent(g) ==
    LET mine == Reverse(CallsOfGame(dbCalls, g))
        PlayOf(c) == CHOOSE p \in {dbPlays[i] : i \in 1..Len(dbPlays)} : p.id = c.play_id
        top == Limit(mine, RecentLimit)
    IN  [i \in 1..Len(top) |->
            [id |-> top[i].id, created_at |-> top[i].id, yards |-> top[i].yards,
             play_name |-> PlayOf(top[i]).name, icon |-> PlayOf(top[i]).icon,
             game_id |-> top[i].game_id]]

HasPlay(id) == \E i \in 1..Len(dbPlays) : dbPlays[i].id = id
HasGame(id) == \E i \in 1..Len(dbGames) : dbGames[i].id = id

\* The backend handles request i, reading and writing the tables as they are
\* at that moment.  A request without a session token reads no rows and is
\* refused a write, and a play call must reference an existing play and game.
Backend(i) ==
    /\ i \in 1..Len(inflight)
    /\ inflight[i].st = "sent"
    /\ LET t == inflight[i]
           Answer(st, res) ==
               inflight' = [inflight EXCEPT ![i] = [t EXCEPT !.st = st, !.res = res]]
           Refuse == Answer("err", <<>>) /\ UNCHANGED dbVars
       IN  CASE t.op = "getSession" ->
                  Answer("ok", authStore) /\ UNCHANGED dbVars
             [] t.op \in PlaysRefreshes ->
                  Answer("ok", IF t.auth THEN SelectPlays ELSE <<>>) /\ UNCHANGED dbVars
             [] t.op \in GamesRefreshes ->
                  Answer("ok", IF t.auth THEN SelectGames ELSE <<>>) /\ UNCHANGED dbVars
             [] t.op \in RecentRefreshes ->
                  Answer("ok", IF t.auth THEN SelectRecent(t.ag) ELSE <<>>) /\ UNCHANGED dbVars
             [] t.op = "signUp" ->
                  (\E user \in {<<>>, <<User>>} : Answer("ok", user)) /\ UNCHANGED dbVars
             [] t.op = "signIn.auth" ->
                  Answer("ok", <<User>>) /\ UNCHANGED dbVars
             [] t.op = "signOut" ->
                  Answer("ok", <<>>) /\ UNCHANGED dbVars
             [] t.op = "signIn.upsert" ->
                  IF ~t.auth THEN Refuse ELSE Answer("ok", <<>>) /\ UNCHANGED dbVars
             [] t.op = "addPlay.insert" ->
                  IF ~t.auth THEN Refuse
                  ELSE /\ dbPlays' = Append(dbPlays, [id |-> dbSeq.play + 1,
                                                     name |-> t.arg.text, icon |-> t.arg.icon])
                       /\ dbSeq' = [dbSeq EXCEPT !.play = @ + 1]
                       /\ Answer("ok", <<[id |-> dbSeq.play + 1]>>)
                       /\ UNCHANGED <<authStore, dbGames, dbCalls, dbGone>>
             [] t.op = "deletePlay.delete" ->
                  IF ~t.auth THEN Refuse
                  ELSE /\ dbPlays' = WithoutPlay(dbPlays, t.arg.id)
                       /\ dbCalls' = WithoutCallsOf(dbCalls, t.arg.id)
                       /\ dbGone' = dbGone \cup CallsOfPlay(dbCalls, t.arg.id)
                       /\ Answer("ok", <<>>)
                       /\ UNCHANGED <<authStore, dbGames, dbSeq>>
             [] t.op = "addGame.insert" ->
                  IF ~t.auth THEN Refuse
                  ELSE /\ dbGames' = Append(dbGames, [id |-> dbSeq.game + 1,
                                                     opponent |-> t.arg.text,
                                                     game_date |-> t.arg.date])
                       /\ dbSeq' = [dbSeq EXCEPT !.game = @ + 1]
                       /\ Answer("ok", <<[id |-> dbSeq.game + 1]>>)
                       /\ UNCHANGED <<authStore, dbPlays, dbCalls, dbGone>>
             [] t.op = "recordPlayCall.insert" ->
                  IF ~t.auth \/ ~HasPlay(t.arg.id) \/ ~HasGame(t.arg.gid) THEN Refuse
                  ELSE /\ dbCalls' = Append(dbCalls, [id |-> dbSeq.call + 1,
                                                     play_id |-> t.arg.id,
                                                     game_id |-> t.arg.gid,
                                                     yards |-> t.arg.yards])
                       /\ dbSeq' = [dbSeq EXCEPT !.call = @ + 1]
                       /\ Answer("ok", <<[id |-> dbSeq.call + 1]>>)
                       /\ UNCHANGED <<authStore, dbPlays, dbGames, dbGone>>
    /\ last' = [op |-> "-", toasts |-> <<>>, sent |-> <<>>, input |-> <<>>]
    /\ UNCHANGED <<anyError, ops, env, mounted, loading, clientVars, stats>>

---------------------------------------------------------------------------
(* The component *)

\* Inputs of the handlers
SignUpInputs == {<<"", "x", "x">>, <<"x", "", "x">>, <<"x", "x", "">>, <<"x", "x", "x">>}
\* The team name field of the login form: empty, one space, a name.
TeamNameInputs == {<<>>, <<" ">>, <<"x">>}
PlayNameInputs == {<<" ", "\t">>, <<"\t", "I", "s", "o", " ">>}
IconInputs == {"deep-shot"}
GameInputs ==
    {<<<<"\t">>, 1>>, <<<<"R", "a", "m", "s", "\t">>, 1>>, <<<<"R", "a", "m", "s", " ">>, 3>>}
YardInputs == {<<"0">>, <<"1", "0", "0">>, <<"3", ".", "5">>}

ClosedDialog == [open |-> FALSE, play |-> <<>>, yards |-> <<"0">>]

Toast(kind, msg) == [kind |-> kind, msg |-> msg]

\* `last` describes the step just taken when it is a click on a button or the
\* end of a handler's await: its name, the notifications it raised, the remote
\* calls it issued and what the handler read (its text fields, the arguments
\* of the request that came back, or the collections it overwrote).  Steps of
\* the backend, the first render and the dialog's local events leave it blank.
Did(op, toasts, sent, input) ==
    last' = [op |-> op, toasts |-> toasts, sent |-> sent, input |-> input]

Quiet == Did("-", <<>>, <<>>, <<>>)

\* What the component renders.
View ==
    IF ~mounted THEN "none"
    ELSE IF supabase = <<>> THEN "fallback"
    ELSE IF loading THEN "loading"
    ELSE IF session = <<>> THEN "login"
    ELSE "main"

\* The main screen behind the modal dialog takes no clicks while it is open.
OnMain == View = "main" /\ ~yardageDialog.open
InDialog == View = "main" /\ yardageDialog.open

Issue(rest, new) ==
    /\ Len(rest) + Len(new) <= MaxInFlight
    /\ inflight' = rest \o new

\* A click on a button that starts a handler with a remote call (sign up, log
\* in, log out, add, create, select a game, delete, save) counts against
\* MaxOps, and so does a call of the auth callback from outside the
\* component; opening, editing and closing the dialog does not.
UserOp ==
    /\ ops < MaxOps
    /\ ops' = ops + 1

\* refreshRecent as called from a closure with activeGameId = ag: no request
\* without an active game.
RefreshRecentTasks(ag, auth) ==
    IF ag = 0 THEN <<>> ELSE <<Task("refreshRecent", ag, NoArg, auth)>>

\* useEffect(..., [session, activeGameId]): on a render that changes either, with
\* a session, Promise.all([refreshPlays(), refreshGames(), refreshRecent()])
LoadEffect(changed, s, ag, auth) ==
    IF changed /\ s # <<>>
    THEN <<Task("refreshPlays", ag, NoArg, auth), Task("refreshGames", ag, NoArg, auth)>>
         \o RefreshRecentTasks(ag, auth)
    ELSE <<>>

\* The response of remote call i reaches the continuation of its handler.  A
\* call the backend has not handled can still come back: as a failure.
Done(i, op) ==
    /\ mounted /\ supabase # <<>>
    /\ i \in 1..Len(inflight)
    /\ inflight[i].op = op

Failed(t) == t.st # "ok"

\* History of the responses taken so far.
Noted(t) == anyError' = (anyError \/ Failed(t))

\* The queue when response i is taken by its continuation: a response that is
\* applied makes the earlier requests for the same collection old.
Applied(t, i, reads) == IF Failed(t) THEN inflight ELSE Superseded(inflight, i, reads)

\* The name under which `last` records a refresh that succeeded.
Refreshed(op) ==
    CASE op = "refreshPlays" -> "refreshPlays.done"
      [] op = "refreshGames" -> "refreshGames.done"
      [] op = "refreshRecent" -> "refreshRecent.done"
      [] op = "deletePlay.refreshPlays" -> "deletePlay.playsRefreshed"
      [] op = "deletePlay.refreshRecent" -> "deletePlay.recentRefreshed"
      [] op = "recordPlayCall.refresh" -> "recordPlayCall.refreshed"

HasAuth == authStore # <<>>

\* First render: the component returns the fallback screen when there is no
\* client, and otherwise starts loading the session.
Mount ==
    /\ ~mounted
    /\ mounted' = TRUE
    /\ LET sent == IF supabase = <<>> THEN <<>>
                   ELSE <<Task("getSession", 0, NoArg, HasAuth)>>
       IN  /\ Issue(inflight, sent)
           /\ Quiet
    /\ UNCHANGED <<anyError, ops, env, loading, clientVars, dbVars, stats>>

\* supabase.auth.getSession() resolved: setSession(data.session); setLoading(false)
GetSessionDone(i) ==
    /\ Done(i, "getSession")
    /\ LET t == inflight[i]
           s == IF Failed(t) THEN <<>> ELSE t.res
           sent == LoadEffect(s # session, s, activeGameId, HasAuth)
       IN  /\ session' = s
           /\ loading' = FALSE
           /\ Issue(Remove(inflight, i), sent)
           /\ Quiet
    /\ Noted(inflight[i])
    /\ UNCHANGED <<ops, env, mounted, plays, games, activeGameId, recentCalls, yardageDialog,
                   dbVars, stats>>

\* The callback that the session effect registers with onAuthStateChange once
\* getSession has resolved, called by the auth client on its own account: with
\* a new session object when it has refreshed the token or the user has signed
\* in from another tab, with null when the session has ended elsewhere or has
\* expired.  setSession(s); a session is a new object every time, so the
\* data-loading effect runs again, and no collection is cleared.
OnAuthStateChange(s) ==
    /\ mounted /\ supabase # <<>> /\ ~loading
    /\ s # <<>> \/ authStore # <<>>
    /\ LET sent == LoadEffect(s # <<>> \/ s # session, s, activeGameId, s # <<>>)
       IN  /\ session' = s
           /\ authStore' = s
           /\ Issue(inflight, sent) /\ UserOp
           /\ Did("onAuthStateChange", <<>>, sent, s)
    /\ UNCHANGED <<anyError, env, mounted, loading, plays, games, activeGameId, recentCalls,
                   yardageDialog, dbPlays, dbGames, dbCalls, dbSeq, dbGone, stats>>

\* Stand-alone refreshes (from the effect, a Promise.all of a handler, or the
\* refreshPlays() that addPlay starts and does not await: "addPlay.refresh",
\* which carries the name and icon of the insert it follows and the id of the
\* row the backend created; the component reads none of them)
PlaysAfterRefreshMutant(t) == IF Failed(t) \/ t.old THEN plays ELSE t.res

\* if (error) toast.error(error.message); else setPlays(data || [])
PlaysAfterRefresh(t) == IF Failed(t) THEN plays ELSE t.res

RefreshPlaysDone(i) ==
    /\ \E op \in PlaysRefreshes : Done(i, op)
    /\ LET t == inflight[i]
       IN  /\ plays' = PlaysAfterRefresh(t)
           /\ Issue(Remove(Applied(t, i, PlaysRefreshes), i), <<>>)
           /\ IF Failed(t)
              THEN Did("refreshPlays.error", <<Toast("error", ErrMsg)>>, <<>>, <<>>)
              ELSE IF t.op = "addPlay.refresh"
                   THEN Did("addPlay.refreshed", <<>>, <<>>, [play |-> t.arg, auth |-> t.auth])
                   ELSE Did(Refreshed(t.op), <<>>, <<>>, t)
    /\ Noted(inflight[i])
    /\ UNCHANGED <<ops, env, mounted, loading, session, games, activeGameId, recentCalls,
                   yardageDialog, dbVars, stats>>

\* The state refreshGames leaves: [games, activeGameId] from its closure's ag.
GamesAfterRefreshMutant(t) ==
    IF Failed(t) THEN [games |-> <<>>, active |-> activeGameId]
    ELSE [games |-> t.res,
          active |-> IF t.ag = 0 /\ Len(t.res) > 0 THEN t.res[1].id ELSE activeGameId]

GamesAfterRefresh(t) ==
    IF Failed(t) THEN [games |-> games, active |-> activeGameId]
    ELSE [games |-> t.res,
          active |-> IF t.ag = 0 /\ Len(t.res) > 0 THEN t.res[1].id ELSE activeGameId]

RefreshGamesDone(i) ==
    /\ Done(i, "refreshGames")
    /\ LET t == inflight[i]
           after == GamesAfterRefresh(t)
           sent == LoadEffect(after.active # activeGameId, session, after.active, HasAuth)
       IN  /\ games' = after.games
           /\ activeGameId' = after.active
           /\ Issue(Remove(Applied(t, i, GamesRefreshes), i), sent)
           /\ IF Failed(t)
              THEN Did("refreshGames.error", <<Toast("error", ErrMsg)>>, sent, <<>>)
              ELSE Did(Refreshed(t.op), <<>>, sent, t)
    /\ Noted(inflight[i])
    /\ UNCHANGED <<ops, env, mounted, loading, session, plays, recentCalls, yardageDialog,
                   dbVars, stats>>

\* if (!error) setRecentCalls(data || [])
RecentAfterRefresh(t) == IF Failed(t) THEN recentCalls ELSE t.res

RefreshRecentDone(i) ==
    /\ \E op \in RecentRefreshes : Done(i, op)
    /\ LET t == inflight[i]
       IN  /\ recentCalls' = RecentAfterRefresh(t)
           /\ stats' = Memo(recentCalls')
           /\ Issue(Remove(Applied(t, i, RecentRefreshes), i), <<>>)
           /\ IF Failed(t) THEN Did("refreshRecent.error", <<>>, <<>>, <<>>)
              ELSE Did(Refreshed(t.op), <<>>, <<>>, t)
    /\ Noted(inflight[i])
    /\ UNCHANGED <<ops, env, mounted, loading, session, plays, games, activeGameId,
                   yardageDialog, dbVars>>

\* signUp: the three fields are required
SignUp(email, password, teamName) ==
    /\ View = "login"
    /\ IF email = "" \/ password = "" \/ teamName = ""
       THEN /\ UNCHANGED inflight /\ UserOp
            /\ Did("signUp.invalid",
                   <<Toast("error", "Email, password, and team name are required")>>,
                   <<>>, <<email, password, teamName>>)
       ELSE LET sent == <<Task("signUp", activeGameId, NoArg, HasAuth)>>
            IN  /\ Issue(inflight, sent) /\ UserOp
                /\ Did("signUp", <<>>, sent, <<email, password, teamName>>)
    /\ UNCHANGED <<anyError, env, mounted, loading, clientVars, dbVars, stats>>

SignUpDone(i) ==
    /\ Done(i, "signUp")
    /\ LET t == inflight[i]
       IN  /\ Issue(Remove(inflight, i), <<>>)
           /\ Did(IF Failed(t) THEN "signUp.error" ELSE "signUp.done",
                  IF Failed(t) THEN <<Toast("error", ErrMsg)>>
                  ELSE IF t.res # <<>>
                       THEN <<Toast("success", "Sign-up successful. Now log in.")>>
                       ELSE <<Toast("success", "Check your inbox to confirm, then log in.")>>,
                  <<>>, <<>>)
    /\ Noted(inflight[i])
    /\ UNCHANGED <<ops, env, mounted, loading, clientVars, dbVars, stats>>

\* signIn: signInWithPassword({email, password})
SignIn(email, password, teamName) ==
    /\ View = "login"
    /\ LET sent == <<Task("signIn.auth", activeGameId, [NoArg EXCEPT !.team = teamName],
                          HasAuth)>>
       IN  /\ Issue(inflight, sent) /\ UserOp
           /\ Did("signIn", <<>>, sent, <<email, password, teamName>>)
    /\ UNCHANGED <<anyError, env, mounted, loading, clientVars, dbVars, stats>>

MyTeam == <<"M", "y", " ", "T", "e", "a", "m">>

\* The upsert of signIn: {user_id: user.id, team_name: teamName || "My Team"}
\* (only the empty string is falsy)
ProfileUpsertMutant(t, user) ==
    Task("signIn.upsert", t.ag, [NoArg EXCEPT !.user = user, !.team = t.arg.team], TRUE)

ProfileUpsert(t, user) ==
    Task("signIn.upsert", t.ag,
         [NoArg EXCEPT !.user = user,
                       !.team = IF t.arg.team = <<>> THEN MyTeam ELSE t.arg.team],
         TRUE)

\* signInWithPassword resolved.  On success the auth client stores the session
\* and notifies onAuthStateChange (setSession), which makes the effect load the
\* data; signIn itself goes on to the profile upsert.
SignInAuthDone(i) ==
    /\ Done(i, "signIn.auth")
    /\ LET t == inflight[i]
       IN  IF Failed(t)
           THEN /\ Issue(Remove(inflight, i), <<>>)
                /\ Did("signIn.error", <<Toast("error", ErrMsg)>>, <<>>, <<>>)
                /\ UNCHANGED <<session, authStore>>
           ELSE LET sent == (IF t.res = <<>> THEN <<>> ELSE <<ProfileUpsert(t, t.res[1])>>)
                            \o LoadEffect(TRUE, t.res, activeGameId, TRUE)
                IN  /\ session' = t.res
                    /\ authStore' = t.res
                    /\ Issue(Remove(inflight, i), sent)
                    /\ Did("signIn.welcome", <<Toast("success", "Welcome back!")>>, sent,
                           t.arg.team)
    /\ Noted(inflight[i])
    /\ UNCHANGED <<ops, env, mounted, loading, plays, games, activeGameId, recentCalls,
                   yardageDialog, dbPlays, dbGames, dbCalls, dbSeq, dbGone, stats>>

\* The upsert resolved: a failure is only reported; then
\* Promise.all([refreshPlays(), refreshGames()]) from signIn's closure.
SignInUpsertDone(i) ==
    /\ Done(i, "signIn.upsert")
    /\ LET t == inflight[i]
           sent == <<Task("refreshPlays", t.ag, NoArg, HasAuth),
                     Task("refreshGames", t.ag, NoArg, HasAuth)>>
       IN  /\ Issue(Remove(inflight, i), sent)
           /\ Did(IF Failed(t) THEN "signIn.profileIssue" ELSE "signIn.done",
                  IF Failed(t) THEN <<Toast("error", "Profile save issue: backend error")>>
                  ELSE <<>>,
                  sent, <<>>)
    /\ Noted(inflight[i])
    /\ UNCHANGED <<ops, env, mounted, loading, clientVars, dbVars, stats>>

\* signOut: await supabase.auth.signOut()
SignOut ==
    /\ OnMain
    /\ LET sent == <<Task("signOut", activeGameId, NoArg, HasAuth)>>
       IN  /\ Issue(inflight, sent) /\ UserOp
           /\ Did("signOut", <<>>, sent, <<>>)
    /\ UNCHANGED <<anyError, env, mounted, loading, clientVars, dbVars, stats>>

\* What signOut sets after the await: [plays, games, active, recent]
SignOutClearsMutant == [plays |-> <<>>, games |-> <<>>, active |-> 0, recent |-> recentCalls]

SignOutClears == [plays |-> <<>>, games |-> <<>>, active |-> 0, recent |-> <<>>]

\* signOut resolved.  A successful sign-out removes the stored session and
\* notifies onAuthStateChange (setSession(null)); the collections are cleared
\* whether or not it succeeded.
SignOutDone(i) ==
    /\ Done(i, "signOut")
    /\ LET t == inflight[i]
           s == IF Failed(t) THEN session ELSE <<>>
           a == IF Failed(t) THEN authStore ELSE <<>>
           sent == LoadEffect(s # session \/ SignOutClears.active # activeGameId, s,
                              SignOutClears.active, a # <<>>)
       IN  /\ session' = s
           /\ authStore' = a
           /\ plays' = SignOutClears.plays
           /\ games' = SignOutClears.games
           /\ activeGameId' = SignOutClears.active
           /\ recentCalls' = SignOutClears.recent
           /\ stats' = Memo(recentCalls')
           /\ Issue(Remove(inflight, i), sent)
           /\ Did("signOut.done", <<>>, sent,
                  [plays |-> plays, games |-> games, active |-> activeGameId,
                   recent |-> recentCalls])
    /\ Noted(inflight[i])
    /\ UNCHANGED <<ops, env, mounted, loading, yardageDialog, dbPlays, dbGames, dbCalls, dbSeq,
                   dbGone>>

\* addPlay: a blank name is refused; insert({name: newPlayName.trim(), icon})
AddPlayTasksMutant(name, icon) ==
    <<Task("addPlay.insert", activeGameId, [NoArg EXCEPT !.text = name, !.icon = icon], HasAuth)>>

AddPlayTasks(name, icon) ==
    IF Trim(name) = <<>> THEN <<>>
    ELSE <<Task("addPlay.insert", activeGameId,
                [NoArg EXCEPT !.text = Trim(name), !.icon = icon], HasAuth)>>

AddPlay(name, icon) ==
    /\ OnMain
    /\ LET sent == AddPlayTasks(name, icon)
       IN  /\ Issue(inflight, sent) /\ UserOp
           /\ IF sent = <<>>
              THEN Did("addPlay.invalid", <<Toast("error", "Play name required")>>, sent,
                       <<name, icon>>)
              ELSE Did("addPlay", <<>>, sent, <<name, icon>>)
    /\ UNCHANGED <<anyError, env, mounted, loading, clientVars, dbVars, stats>>

AddPlayDone(i) ==
    /\ Done(i, "addPlay.insert")
    /\ LET t == inflight[i]
           sent == IF Failed(t) THEN <<>>
                   ELSE <<Task("addPlay.refresh", t.ag, [t.arg EXCEPT !.id = t.res[1].id],
                               HasAuth)>>
       IN  /\ Issue(Remove(inflight, i), sent)
           /\ Did(IF Failed(t) THEN "addPlay.error" ELSE "addPlay.done",
                  IF Failed(t) THEN <<Toast("error", ErrMsg)>>
                  ELSE <<Toast("success", "Play added")>>,
                  sent, t.arg)
    /\ Noted(inflight[i])
    /\ UNCHANGED <<ops, env, mounted, loading, clientVars, dbVars, stats>>

OpenDialogMutant(pl) == [yardageDialog EXCEPT !.open = TRUE, !.play = <<pl>>]

\* setYardageDialog({open: true, play: pl, yards: "0"})
OpenDialog(pl) == [open |-> TRUE, play |-> <<pl>>, yards |-> <<"0">>]

\* A play button
TapPlay(k) ==
    /\ OnMain
    /\ k \in 1..Len(plays)
    /\ yardageDialog' = OpenDialog(plays[k])
    /\ Quiet
    /\ UNCHANGED <<anyError, ops, env, mounted, loading, session, plays, games, activeGameId, recentCalls,
                   dbVars, inflight, stats>>

\* The yards input: setYardageDialog(d => ({...d, yards: e.target.value}))
SetYards(text) ==
    /\ InDialog
    /\ text # yardageDialog.yards
    /\ yardageDialog' = [yardageDialog EXCEPT !.yards = text]
    /\ Quiet
    /\ UNCHANGED <<anyError, ops, env, mounted, loading, session, plays, games, activeGameId, recentCalls,
                   dbVars, inflight, stats>>

\* Cancel: setYardageDialog({open: false, play: null, yards: "0"})
Cancel ==
    /\ InDialog
    /\ yardageDialog' = ClosedDialog
    /\ Quiet
    /\ UNCHANGED <<anyError, ops, env, mounted, loading, session, plays, games, activeGameId, recentCalls,
                   dbVars, inflight, stats>>

\* Outside click or Escape: onOpenChange(false) keeps the play and the yards
Dismiss ==
    /\ InDialog
    /\ yardageDialog' = [yardageDialog EXCEPT !.open = FALSE]
    /\ Quiet
    /\ UNCHANGED <<anyError, ops, env, mounted, loading, session, plays, games, activeGameId, recentCalls,
                   dbVars, inflight, stats>>

\* deletePlay(id): nothing without the confirmation
DeletePlayTasksMutant(id, confirmed) ==
    <<Task("deletePlay.delete", activeGameId, [NoArg EXCEPT !.id = id], HasAuth)>>

DeletePlayTasks(id, confirmed) ==
    IF ~confirmed THEN <<>>
    ELSE <<Task("deletePlay.delete", activeGameId, [NoArg EXCEPT !.id = id], HasAuth)>>

\* The dialog's Delete button: yardageDialog.play && deletePlay(yardageDialog.play.id)
DeletePlay(confirmed) ==
    /\ InDialog
    /\ yardageDialog.play # <<>>
    /\ LET sent == DeletePlayTasks(yardageDialog.play[1].id, confirmed)
       IN  /\ Issue(inflight, sent) /\ UserOp
           /\ Did(IF confirmed THEN "deletePlay" ELSE "deletePlay.declined", <<>>, sent,
                  confirmed)
    /\ UNCHANGED <<anyError, env, mounted, loading, clientVars, dbVars, stats>>

\* await Promise.all([refreshPlays(), refreshRecent()]), from deletePlay's
\* closure; the requests carry the id of the play that was deleted.
DeletePlayRefreshesMutant(t, auth) ==
    <<Task("deletePlay.refreshPlays", t.ag, t.arg, auth)>>

DeletePlayRefreshes(t, auth) ==
    <<Task("deletePlay.refreshPlays", t.ag, t.arg, auth)>>
    \o (IF t.ag = 0 THEN <<>> ELSE <<Task("deletePlay.refreshRecent", t.ag, t.arg, auth)>>)

DeletePlayDone(i) ==
    /\ Done(i, "deletePlay.delete")
    /\ LET t == inflight[i]
           sent == IF Failed(t) THEN <<>>
                   ELSE DeletePlayRefreshes(t, HasAuth)
       IN  /\ Issue(Remove(inflight, i), sent)
           /\ Did(IF Failed(t) THEN "deletePlay.error" ELSE "deletePlay.done",
                  IF Failed(t) THEN <<Toast("error", ErrMsg)>>
                  ELSE <<Toast("success", "Play deleted")>>,
                  sent, t.arg)
    /\ Noted(inflight[i])
    /\ UNCHANGED <<ops, env, mounted, loading, clientVars, dbVars, stats>>

\* addGame: a blank opponent is refused;
\* insert({opponent: newOpponent.trim(), game_date: newDate}).select("id").single()
AddGameTasksMutant(opponent, date) ==
    <<Task("addGame.insert", activeGameId,
           [NoArg EXCEPT !.text = Trim(opponent), !.date = date], HasAuth)>>

AddGameTasks(opponent, date) ==
    IF Trim(opponent) = <<>> THEN <<>>
    ELSE <<Task("addGame.insert", activeGameId,
                [NoArg EXCEPT !.text = Trim(opponent), !.date = date], HasAuth)>>

AddGame(opponent, date) ==
    /\ OnMain
    /\ LET sent == AddGameTasks(opponent, date)
       IN  /\ Issue(inflight, sent) /\ UserOp
           /\ IF sent = <<>>
              THEN Did("addGame.invalid", <<Toast("error", "Opponent required")>>, sent,
                       <<opponent, date>>)
              ELSE Did("addGame", <<>>, sent, <<opponent, date>>)
    /\ UNCHANGED <<anyError, env, mounted, loading, clientVars, dbVars, stats>>

\* The insert resolved: on success "Game created" and await refreshGames()
AddGameInsertDone(i) ==
    /\ Done(i, "addGame.insert")
    /\ LET t == inflight[i]
           sent == IF Failed(t) THEN <<>>
                   ELSE <<Task("addGame.refresh", t.ag, [NoArg EXCEPT !.id = t.res[1].id],
                               HasAuth)>>
       IN  /\ Issue(Remove(inflight, i), sent)
           /\ Did(IF Failed(t) THEN "addGame.error" ELSE "addGame.created",
                  IF Failed(t) THEN <<Toast("error", ErrMsg)>>
                  ELSE <<Toast("success", "Game created")>>,
                  sent, t.arg)
    /\ Noted(inflight[i])
    /\ UNCHANGED <<ops, env, mounted, loading, clientVars, dbVars, stats>>

\* The active game addGame leaves after its refreshGames: if (data?.id) setActiveGameId(data.id)
AddGameActive(t, afterRefresh) == IF t.arg.id # 0 THEN t.arg.id ELSE afterRefresh

\* The refreshGames of addGame resolved, and addGame's last line ran.
AddGameRefreshDone(i) ==
    /\ Done(i, "addGame.refresh")
    /\ LET t == inflight[i]
           after == GamesAfterRefresh(t)
           active == AddGameActive(t, after.active)
           sent == LoadEffect(active # activeGameId, session, active, HasAuth)
       IN  /\ games' = after.games
           /\ activeGameId' = active
           /\ Issue(Remove(Applied(t, i, GamesRefreshes), i), sent)
           /\ Did(IF Failed(t) THEN "addGame.refreshError" ELSE "addGame.done",
                  IF Failed(t) THEN <<Toast("error", ErrMsg)>> ELSE <<>>, sent, t.arg)
    /\ Noted(inflight[i])
    /\ UNCHANGED <<ops, env, mounted, loading, session, plays, recentCalls, yardageDialog,
                   dbVars, stats>>

\* A game button: setActiveGameId(g.id)
SelectGame(k) ==
    /\ OnMain
    /\ k \in 1..Len(games)
    /\ LET sent == LoadEffect(games[k].id # activeGameId, session, games[k].id, HasAuth)
       IN  /\ activeGameId' = games[k].id
           /\ Issue(inflight, sent) /\ UserOp
           /\ Did("selectGame", <<>>, sent, k)
    /\ UNCHANGED <<anyError, env, mounted, loading, session, plays, games, recentCalls, yardageDialog,
                   dbVars, stats>>

\* The checks of recordPlayCall, in order: the message of the first that fails, or "ok".
RecordCheck(d, ag) ==
    IF d.play = <<>> THEN "No play selected."
    ELSE IF ag = 0 THEN "Pick or create a game first."
    ELSE LET raw == Trim(d.yards)
         IN  IF ~IntegerPattern(raw) THEN "Enter a whole number (no decimals)."
             ELSE IF ~NumberIsFinite(raw) \/ ~YardsInRange(ToNumber(raw))
                  THEN "Yards must be between -99 and 99"
                  ELSE "ok"

\* insert({play_id: yardageDialog.play.id, game_id: activeGameId, yards})
RecordInsert(d, ag) ==
    Task("recordPlayCall.insert", ag,
         [NoArg EXCEPT !.id = d.play[1].id, !.gid = ag, !.yards = ToNumber(Trim(d.yards))],
         HasAuth)

\* The dialog's Save button
RecordPlayCall ==
    /\ InDialog
    /\ LET check == RecordCheck(yardageDialog, activeGameId)
           sent == IF check = "ok" THEN <<RecordInsert(yardageDialog, activeGameId)>> ELSE <<>>
       IN  /\ Issue(inflight, sent) /\ UserOp
           /\ IF check = "ok"
              THEN Did("recordPlayCall", <<>>, sent, yardageDialog.yards)
              ELSE Did("recordPlayCall.invalid", <<Toast("error", check)>>, sent,
                       yardageDialog.yards)
    /\ UNCHANGED <<anyError, env, mounted, loading, clientVars, dbVars, stats>>

RecordRefreshMutant(t, auth) == <<>>

\* await refreshRecent(), from recordPlayCall's closure; the request carries the
\* id of the call record the insert created.
RecordRefresh(t, auth) ==
    IF t.ag = 0 THEN <<>>
    ELSE <<Task("recordPlayCall.refresh", t.ag, [t.arg EXCEPT !.id = t.res[1].id], auth)>>

\* The insert resolved: on success "Play saved", the dialog is reset and
\* refreshRecent() runs from recordPlayCall's closure.
RecordPlayCallDone(i) ==
    /\ Done(i, "recordPlayCall.insert")
    /\ LET t == inflight[i]
           sent == IF Failed(t) THEN <<>> ELSE RecordRefresh(t, HasAuth)
       IN  /\ yardageDialog' = IF Failed(t) THEN yardageDialog ELSE ClosedDialog
           /\ Issue(Remove(inflight, i), sent)
           /\ Did(IF Failed(t) THEN "recordPlayCall.error" ELSE "recordPlayCall.done",
                  IF Failed(t) THEN <<Toast("error", ErrMsg)>>
                  ELSE <<Toast("success", "Play saved")>>,
                  sent, t.arg)
    /\ Noted(inflight[i])
    /\ UNCHANGED <<ops, env, mounted, loading, session, plays, games, activeGameId, recentCalls,
                   dbVars, stats>>

---------------------------------------------------------------------------
(* The specification *)

\* The team's tables when the component starts: one play, two games (the one
\* entered first is the later one) and one call of the play in game 1.
SeededPlays == <<[id |-> 1, name |-> <<"S", "w", "e", "e", "p">>, icon |-> "inside-run"]>>
SeededGames == <<[id |-> 1, opponent |-> <<"R", "a", "m", "s">>, game_date |-> 2],
                 [id |-> 2, opponent |-> <<"R", "a", "m", "s">>, game_date |-> 0]>>
SeededCalls == <<[id |-> 1, play_id |-> 1, game_id |-> 1, yards |-> 4]>>

InitClient ==
    /\ mounted = FALSE
    /\ loading = TRUE
    /\ session = <<>>
    /\ plays = <<>>
    /\ games = <<>>
    /\ activeGameId = 0
    /\ recentCalls = <<>>
    /\ yardageDialog = ClosedDialog
    /\ inflight = <<>>
    /\ last = [op |-> "-", toasts |-> <<>>, sent |-> <<>>, input |-> <<>>]
    /\ ops = 0
    /\ stats = Memo(<<>>)

Init ==
    /\ env \in [url : BOOLEAN, key : BOOLEAN]
    /\ authStore \in {<<>>, <<User>>}
    /\ dbPlays = SeededPlays
    /\ dbGames = SeededGames
    /\ dbCalls = SeededCalls
    /\ dbSeq = [play |-> Len(SeededPlays), game |-> Len(SeededGames), call |-> Len(SeededCalls)]
    /\ dbGone = {}
    /\ anyError = FALSE
    /\ InitClient

Next ==
    \/ Mount
    \/ \E i \in 1..Len(inflight) : Backend(i)
    \/ \E i \in 1..Len(inflight) : GetSessionDone(i)
    \/ \E s \in {<<>>, <<User>>} : OnAuthStateChange(s)
    \/ \E i \in 1..Len(inflight) : RefreshPlaysDone(i)
    \/ \E i \in 1..Len(inflight) : RefreshGamesDone(i)
    \/ \E i \in 1..Len(inflight) : RefreshRecentDone(i)
    \/ \E in \in SignUpInputs : SignUp(in[1], in[2], in[3])
    \/ \E i \in 1..Len(inflight) : SignUpDone(i)
    \/ \E t \in TeamNameInputs : SignIn("x", "x", t)
    \/ \E i \in 1..Len(inflight) : SignInAuthDone(i)
    \/ \E i \in 1..Len(inflight) : SignInUpsertDone(i)
    \/ SignOut
    \/ \E i \in 1..Len(inflight) : SignOutDone(i)
    \/ \E n \in PlayNameInputs, ic \in IconInputs : AddPlay(n, ic)
    \/ \E i \in 1..Len(inflight) : AddPlayDone(i)
    \/ \E k \in 1..Len(plays) : TapPlay(k)
    \/ \E text \in YardInputs : SetYards(text)
    \/ Cancel
    \/ Dismiss
    \/ \E c \in BOOLEAN : DeletePlay(c)
    \/ \E i \in 1..Len(inflight) : DeletePlayDone(i)
    \/ \E in \in GameInputs : AddGame(in[1], in[2])
    \/ \E i \in 1..Len(inflight) : AddGameInsertDone(i)
    \/ \E i \in 1..Len(inflight) : AddGameRefreshDone(i)
    \/ \E k \in 1..Len(games) : SelectGame(k)
    \/ RecordPlayCall
    \/ \E i \in 1..Len(inflight) : RecordPlayCallDone(i)

Spec == Init /\ [][Next]_vars

---------------------------------------------------------------------------
(* The component with its data loaded: session restored, plays, games and    *)
(* recent calls as the backend holds them, the first game of the list        *)
(* active.  The two specifications below start here.                         *)

Loaded ==
    /\ env = [url |-> TRUE, key |-> TRUE]
    /\ mounted = TRUE
    /\ loading = FALSE
    /\ session = <<User>>
    /\ authStore = <<User>>
    /\ dbPlays = SeededPlays
    /\ dbGames = SeededGames
    /\ dbCalls = SeededCalls
    /\ dbSeq = [play |-> Len(SeededPlays), game |-> Len(SeededGames), call |-> Len(SeededCalls)]
    /\ dbGone = {}
    /\ anyError = FALSE
    /\ plays = SelectPlays
    /\ games = SelectGames
    /\ activeGameId = games[1].id
    /\ inflight = <<>>
    /\ last = [op |-> "-", toasts |-> <<>>, sent |-> <<>>, input |-> <<>>]
    /\ ops = 0

(* recordPlayCall over every yardage text of at most MaxYardLen characters *)

YardChars == {"\t", " ", "-", ".", "0", "1", "3", "5", "9"}

YardTexts == UNION {[1..n -> YardChars] : n \in 0..MaxYardLen}

\* Digit texts as long as InfinityDigits: all zeros, zeros and a 7, a 1 and
\* zeros, the least text that is not finite and the text one below it.
LongYardTexts ==
    LET n == Len(InfinityDigits)
        zeros(k) == [i \in 1..k |-> "0"]
    IN  {zeros(n), zeros(n - 1) \o <<"7">>, <<"1">> \o zeros(n - 1), InfinityDigits,
         [InfinityDigits EXCEPT ![n] = Digits[DigitVal(InfinityDigits[n])]]}

InitYards ==
    /\ Loaded
    /\ recentCalls = SelectRecent(activeGameId)
    /\ stats = Memo(recentCalls)
    /\ \E text \in YardTexts \cup LongYardTexts :
          yardageDialog = [open |-> TRUE, play |-> <<plays[1]>>, yards |-> text]

NextYards ==
    \/ RecordPlayCall
    \/ \E i \in 1..Len(inflight) : Backend(i)
    \/ \E i \in 1..Len(inflight) : RecordPlayCallDone(i)
    \/ \E i \in 1..Len(inflight) : RefreshRecentDone(i)

SpecYards == InitYards /\ [][NextYards]_vars

(* perPlayStats over every recent-calls list of at most MaxStatLen rows *)

StatNames == {<<"I", "s", "o">>, <<"S", "w", "e", "e", "p">>}
StatYards == {-99, -2, -1, 4, 6}
StatIcons == {"inside-run", "deep-shot"}

\* Rows as play_calls_view returns them, newest first.
StatRows(n, f) ==
    [i \in 1..n |->
        [id |-> n + 1 - i, created_at |-> n + 1 - i, yards |-> f[i][2],
         play_name |-> f[i][1], icon |-> f[i][3], game_id |-> 1]]

InitStats ==
    /\ Loaded
    /\ yardageDialog = ClosedDialog
    /\ \E n \in 0..MaxStatLen :
          \E f \in [1..n -> StatNames \X StatYards \X StatIcons] :
             recentCalls = StatRows(n, f)
    /\ stats = [fresh |-> FALSE, rows |-> <<>>]

\* The render after setRecentCalls: useMemo recomputes perPlayStats.
RenderStats ==
    /\ ~stats.fresh
    /\ stats' = Memo(recentCalls)
    /\ UNCHANGED <<env, mounted, loading, clientVars, dbVars, anyError, inflight, last, ops>>

NextStats == RenderStats

SpecStats == InitStats /\ [][NextStats]_vars

(* The recent calls of a game with more calls than the limit: the team has  *)
(* called Sweep RecentLimit + 1 times in game 1 and once in game 2.  The      *)
(* session is restored, plays and games are loaded, game 1 has just become    *)
(* active and the data-loading effect has issued its three refreshes.  The    *)
(* user clicks RecentClicks times on a game, Save or Delete, and closes the   *)
(* dialog at will, so that a game is selected while a Save is in flight.      *)

ManyCalls ==
    [k \in 1..(RecentLimit + 1) |-> [id |-> k, play_id |-> 1, game_id |-> 1, yards |-> k]]
    \o <<[id |-> RecentLimit + 2, play_id |-> 1, game_id |-> 2, yards |-> 0 - 2]>>

InitRecent ==
    /\ env = [url |-> TRUE, key |-> TRUE]
    /\ mounted = TRUE
    /\ loading = FALSE
    /\ session = <<User>>
    /\ authStore = <<User>>
    /\ dbPlays = SeededPlays
    /\ dbGames = SeededGames
    /\ dbCalls = ManyCalls
    /\ dbSeq = [play |-> Len(SeededPlays), game |-> Len(SeededGames), call |-> Len(ManyCalls)]
    /\ dbGone = {}
    /\ anyError = FALSE
    /\ plays = SelectPlays
    /\ games = SelectGames
    /\ activeGameId = games[1].id
    /\ recentCalls = <<>>
    /\ stats = Memo(recentCalls)
    /\ yardageDialog = ClosedDialog
    /\ inflight = LoadEffect(TRUE, session, activeGameId, TRUE)
    /\ last = [op |-> "-", toasts |-> <<>>, sent |-> <<>>, input |-> <<>>]
    /\ ops = MaxOps - RecentClicks

NextRecent ==
    \/ \E i \in 1..Len(inflight) : Backend(i)
    \/ \E i \in 1..Len(inflight) : RefreshPlaysDone(i)
    \/ \E i \in 1..Len(inflight) : RefreshGamesDone(i)
    \/ \E i \in 1..Len(inflight) : RefreshRecentDone(i)
    \/ \E k \in 1..Len(games) : SelectGame(k)
    \/ \E k \in 1..Len(plays) : TapPlay(k)
    \/ \E text \in YardInputs : SetYards(text)
    \/ Cancel
    \/ Dismiss
    \/ RecordPlayCall
    \/ \E i \in 1..Len(inflight) : RecordPlayCallDone(i)
    \/ \E c \in BOOLEAN : DeletePlay(c)
    \/ \E i \in 1..Len(inflight) : DeletePlayDone(i)

SpecRecent == InitRecent /\ [][NextRecent]_vars

(* One opening of the yardage dialog: it is open on the first play with the  *)
(* data loaded, Save and Delete may be clicked DialogClicks times in all, and *)
(* no play is tapped again once it has closed.                                *)

InitDialog ==
    /\ env = [url |-> TRUE, key |-> TRUE]
    /\ mounted = TRUE
    /\ loading = FALSE
    /\ session = <<User>>
    /\ authStore = <<User>>
    /\ dbPlays = SeededPlays
    /\ dbGames = SeededGames
    /\ dbCalls = SeededCalls
    /\ dbSeq = [play |-> Len(SeededPlays), game |-> Len(SeededGames), call |-> Len(SeededCalls)]
    /\ dbGone = {}
    /\ anyError = FALSE
    /\ plays = SelectPlays
    /\ games = SelectGames
    /\ activeGameId = games[1].id
    /\ recentCalls = SelectRecent(activeGameId)
    /\ stats = Memo(recentCalls)
    /\ yardageDialog = [open |-> TRUE, play |-> <<plays[1]>>, yards |-> <<"0">>]
    /\ inflight = <<>>
    /\ last = [op |-> "-", toasts |-> <<>>, sent |-> <<>>, input |-> <<>>]
    /\ ops = MaxOps - DialogClicks

NextDialog ==
    \/ \E text \in YardInputs : SetYards(text)
    \/ Cancel
    \/ Dismiss
    \/ RecordPlayCall
    \/ \E c \in BOOLEAN : DeletePlay(c)
    \/ \E i \in 1..Len(inflight) : Backend(i)
    \/ \E i \in 1..Len(inflight) : RecordPlayCallDone(i)
    \/ \E i \in 1..Len(inflight) : DeletePlayDone(i)
    \/ \E i \in 1..Len(inflight) : RefreshPlaysDone(i)
    \/ \E i \in 1..Len(inflight) : RefreshRecentDone(i)

SpecDialog == InitDialog /\ [][NextDialog]_vars

(* Saving call after call: the data is loaded and the dialog is open on the  *)
(* first play.  The user clicks Save SaveClicks times, tapping the play again *)
(* or cancelling the dialog at will, each click with at most SaveBacklog      *)
(* requests outstanding; instead of one of the first EarlyClicks of them the  *)
(* user can select a game or delete the play, or the session can end          *)
(* elsewhere.  The refresh of an early call can thus stay unanswered while    *)
(* RecentLimit more calls of its game are recorded.                           *)

InitSave ==
    /\ env = [url |-> TRUE, key |-> TRUE]
    /\ mounted = TRUE
    /\ loading = FALSE
    /\ session = <<User>>
    /\ authStore = <<User>>
    /\ dbPlays = SeededPlays
    /\ dbGames = SeededGames
    /\ dbCalls = SeededCalls
    /\ dbSeq = [play |-> Len(SeededPlays), game |-> Len(SeededGames), call |-> Len(SeededCalls)]
    /\ dbGone = {}
    /\ anyError = FALSE
    /\ plays = SelectPlays
    /\ games = SelectGames
    /\ activeGameId = games[1].id
    /\ recentCalls = SelectRecent(activeGameId)
    /\ stats = Memo(recentCalls)
    /\ yardageDialog = [open |-> TRUE, play |-> <<plays[1]>>, yards |-> <<"0">>]
    /\ inflight = <<>>
    /\ last = [op |-> "-", toasts |-> <<>>, sent |-> <<>>, input |-> <<>>]
    /\ ops = MaxOps - SaveClicks

Unhurried == Len(inflight) <= SaveBacklog
Early == ops < MaxOps - SaveClicks + EarlyClicks

NextSave ==
    \/ \E k \in 1..Len(plays) : TapPlay(k)
    \/ Cancel
    \/ Unhurried /\ RecordPlayCall
    \/ Unhurried /\ Early /\ DeletePlay(TRUE)
    \/ Unhurried /\ Early /\ \E k \in 1..Len(games) : SelectGame(k)
    \/ Unhurried /\ Early /\ OnAuthStateChange(<<>>)
    \/ \E i \in 1..Len(inflight) : Backend(i)
    \/ \E i \in 1..Len(inflight) : RecordPlayCallDone(i)
    \/ \E i \in 1..Len(inflight) : DeletePlayDone(i)
    \/ \E i \in 1..Len(inflight) : RefreshPlaysDone(i)
    \/ \E i \in 1..Len(inflight) : RefreshGamesDone(i)
    \/ \E i \in 1..Len(inflight) : RefreshRecentDone(i)

SpecSave == InitSave /\ [][NextSave]_vars

---------------------------------------------------------------------------
(* Properties *)

Zeros(z) == [i \in 1..z |-> "0"]

\* The characters of text from position from to position to are white space.
BlankRun(text, from, to) == \A i \in from..to : text[i] \in WhiteSpace

\* The integers of at most MaxYards in absolute value that core denotes as an
\* optional minus sign, leading zeros and the decimal digits of the integer.
CoreReadings(core) ==
    {IF q[1] THEN 0 - q[2] ELSE q[2] :
        q \in {r \in BOOLEAN \X (0..MaxYards) :
            LET sign == IF r[1] THEN <<"-">> ELSE <<>>
                n == NatToText(r[2])
            IN  \E z \in 0..Len(core) :
                    /\ Len(sign) + z + Len(n) = Len(core)
                    /\ core = sign \o Zeros(z) \o n}}

\* The readings of a yardage text as white space, an optional minus sign,
\* digits (leading zeros and the decimal digits of n) and white space, with n
\* at most 99: the set of the integers it denotes, empty when it has no such
\* reading.
YardReadings(text) ==
    UNION {CoreReadings(SubSeq(text, p[1] + 1, p[2])) :
              p \in {q \in (0..Len(text)) \X (0..Len(text)) :
                        /\ q[1] <= q[2]
                        /\ BlankRun(text, 1, q[1])
                        /\ BlankRun(text, q[2] + 1, Len(text))}}

\* C1: Save with a play in the dialog and an active game issues a play_calls
\* insert if and only if the trimmed yardage text is an optional minus sign
\* and one or more digits whose value lies in [-99, 99]; the insert carries
\* that integer, the dialog's play and the active game, and no persisted call
\* has yards outside [-99, 99].
C1_YardageValidation ==
    /\ last.op \in {"recordPlayCall", "recordPlayCall.invalid"} =>
          /\ yardageDialog.play # <<>> /\ activeGameId # 0
          /\ last.sent # <<>> <=> YardReadings(last.input) # {}
          /\ last.sent # <<>> =>
                /\ Len(last.sent) = 1
                /\ last.sent[1].op = "recordPlayCall.insert"
                /\ YardReadings(last.input) = {last.sent[1].arg.yards}
                /\ last.sent[1].arg.id = yardageDialog.play[1].id
                /\ last.sent[1].arg.gid = activeGameId
    /\ \A i \in 1..Len(dbCalls) : dbCalls[i].yards \in MinYards..MaxYards

\* "-99" was saved and the call is in the table with yards -99.
C1_Witness ==
    /\ last.op = "recordPlayCall.done"
    /\ last.input.yards = -99
    /\ \E i \in 1..Len(dbCalls) : dbCalls[i].yards = -99 /\ dbCalls[i].game_id = last.input.gid

\* C2: once the signOut handler has completed, plays, games and recentCalls
\* are empty and no game is active, whatever they held before.
C2_SignOutClears ==
    [][last'.op = "signOut.done" =>
          /\ plays' = <<>> /\ games' = <<>> /\ recentCalls' = <<>> /\ activeGameId' = 0
          /\ stats'.rows = <<>>]_vars

\* signOut completed from a state with plays, games, recent calls and an active game.
C2_Witness ==
    /\ last.op = "signOut.done"
    /\ last.input.plays # <<>> /\ last.input.games # <<>> /\ last.input.recent # <<>>
    /\ last.input.active # 0
    /\ plays = <<>> /\ games = <<>> /\ recentCalls = <<>> /\ activeGameId = 0

\* The active game is one that addGame created and whose handler has completed.
CreatedGameActive ==
    /\ activeGameId > Len(SeededGames)
    /\ \A j \in 1..Len(inflight) :
          inflight[j].op \in {"addGame.insert", "addGame.refresh"} =>
             inflight[j].arg.id # activeGameId

\* C3: when the games insert of addGame succeeds, the new game is the active
\* game once the handler has completed, and it stays the active game until
\* the user selects another game, creates another game or signs out: no
\* response of a games refresh moves the selection.
C3_CreatedGameStaysActive ==
    [][/\ last'.op \in {"addGame.done", "addGame.refreshError"} =>
             activeGameId' = last'.input.id
       /\ (CreatedGameActive
           /\ last'.op \notin {"selectGame", "addGame.done", "addGame.refreshError",
                               "signOut.done"})
             => activeGameId' = activeGameId]_vars

\* C4: when the user withholds the confirmation of deletePlay, no delete
\* request and no refresh is sent, and plays, recentCalls, the active game and
\* the dialog are unchanged (as are the backend's tables).
C4_DeclinedDeleteIsNoOp ==
    [][(last'.op \in {"deletePlay", "deletePlay.declined"} /\ last'.input = FALSE) =>
          /\ last'.sent = <<>>
          /\ inflight' = inflight
          /\ UNCHANGED <<plays, recentCalls, activeGameId, yardageDialog, games, session>>
          /\ UNCHANGED dbVars]_vars

\* The confirmation of a delete was declined in the dialog of a listed play
\* with recorded calls.
C4_Witness ==
    /\ last.op = "deletePlay.declined"
    /\ yardageDialog.open
    /\ \E k \in 1..Len(plays) : yardageDialog.play = <<plays[k]>>
    /\ recentCalls # <<>>
    /\ inflight = <<>>

CallsNamed(calls, name) == {i \in 1..Len(calls) : calls[i].play_name = name}

FirstCall(calls, name) ==
    CHOOSE i \in CallsNamed(calls, name) : \A j \in CallsNamed(calls, name) : i <= j

RECURSIVE SumYards(_, _)
SumYards(calls, idx) ==
    IF idx = {} THEN 0
    ELSE LET i == CHOOSE j \in idx : TRUE
         IN  calls[i].yards + SumYards(calls, idx \ {i})

RECURSIVE SumCounts(_)
SumCounts(rows) == IF rows = <<>> THEN 0 ELSE Head(rows).count + SumCounts(Tail(rows))

\* A text of the form [-]d..d.d, and the number of tenths it denotes.
OneDecimal(a) ==
    LET body == IF a # <<>> /\ Head(a) = "-" THEN Tail(a) ELSE a
    IN  /\ Len(body) >= 3
        /\ body[Len(body) - 1] = "."
        /\ \A i \in 1..Len(body) : i # Len(body) - 1 => IsDigit(body[i])

Tenths(a) ==
    LET body == IF Head(a) = "-" THEN Tail(a) ELSE a
        n == 10 * DigitsValue(SubSeq(body, 1, Len(body) - 2)) + DigitVal(body[Len(body)])
    IN  IF Head(a) = "-" THEN 0 - n ELSE n

ExampleCalls ==
    <<[id |-> 3, created_at |-> 3, yards |-> 4, play_name |-> <<"I", "s", "o">>,
       icon |-> "inside-run", game_id |-> 1],
      [id |-> 2, created_at |-> 2, yards |-> 6, play_name |-> <<"I", "s", "o">>,
       icon |-> "deep-shot", game_id |-> 1],
      [id |-> 1, created_at |-> 1, yards |-> -2, play_name |-> <<"S", "w", "e", "e", "p">>,
       icon |-> "inside-run", game_id |-> 1]>>

ExampleStats ==
    <<[name |-> <<"I", "s", "o">>, count |-> 2, avg |-> <<"5", ".", "0">>],
      [name |-> <<"S", "w", "e", "e", "p">>, count |-> 1, avg |-> <<"-", "2", ".", "0">>]>>

\* C5: perPlayStats has exactly one entry per distinct play name of the recent
\* calls (whatever play or icon the calls belong to), in the order of the
\* names' first occurrence; an entry's count is the number of calls with its
\* name, the counts sum to the length of the list, and avg is a text with
\* exactly one decimal whose value is sum/count rounded to the nearest tenth
\* (a tie away from zero); Iso 4, Iso 6, Sweep -2 gives Iso 2 "5.0", Sweep 1 "-2.0".
C5_PerPlayStats ==
    stats.fresh =>
       LET calls == recentCalls
           rows == stats.rows
       IN  /\ {rows[i].name : i \in 1..Len(rows)} = {calls[i].play_name : i \in 1..Len(calls)}
           /\ \A i, j \in 1..Len(rows) :
                 i < j => FirstCall(calls, rows[i].name) < FirstCall(calls, rows[j].name)
           /\ \A i \in 1..Len(rows) :
                 LET idx == CallsNamed(calls, rows[i].name)
                     sum == SumYards(calls, idx)
                     n == Cardinality(idx)
                 IN  /\ rows[i].count = n
                     /\ OneDecimal(rows[i].avg)
                     /\ 2 * Abs(10 * sum - n * Tenths(rows[i].avg)) <= n
                     /\ 2 * Abs(10 * sum - n * Tenths(rows[i].avg)) = n =>
                           Abs(n * Tenths(rows[i].avg)) > Abs(10 * sum)
                     /\ (Head(rows[i].avg) = "-") = (sum < 0)
           /\ SumCounts(rows) = Len(calls)
           /\ calls = ExampleCalls => rows = ExampleStats

\* The statistics of the example list, whose two Iso calls have different icons.
C5_Witness ==
    /\ stats.fresh
    /\ recentCalls = ExampleCalls
    /\ stats.rows = ExampleStats

\* C6: when the service URL or the public API key is missing, no client is
\* created, no request is ever issued or handled, and the component shows the
\* static fallback screen from its first render on.
C6_Unconfigured ==
    (~env.url \/ ~env.key) =>
       /\ supabase = <<>>
       /\ inflight = <<>>
       /\ mounted => View = "fallback"
       /\ session = <<>> /\ plays = <<>> /\ games = <<>> /\ recentCalls = <<>>
       /\ dbPlays = SeededPlays /\ dbGames = SeededGames /\ dbCalls = SeededCalls

\* Rendered with the URL set and the key missing.
C6_Witness ==
    /\ env.url /\ ~env.key
    /\ mounted
    /\ View = "fallback"
    /\ inflight = <<>>

Blank(text) == BlankRun(text, 1, Len(text))

\* text without its leading and trailing white space, stated without Trim
Stripped(text, core) ==
    /\ core # <<>> /\ core[1] \notin WhiteSpace /\ core[Len(core)] \notin WhiteSpace
    /\ \E a \in 0..Len(text) :
          /\ a + Len(core) <= Len(text)
          /\ BlankRun(text, 1, a)
          /\ SubSeq(text, a + 1, a + Len(core)) = core
          /\ BlankRun(text, a + Len(core) + 1, Len(text))

Sorted(ps) == \A i, j \in 1..Len(ps) : i < j => ~TextLess(ps[j].name, ps[i].name)

\* Where the local list holds the play with this id.
Listed(ps, id) == {k \in 1..Len(ps) : ps[k].id = id}

\* addPlay up to the re-fetch: a blank name issues nothing; any other name
\* issues exactly one insert of the trimmed name and the selected icon; the
\* insert's success starts one plays re-fetch and its failure none.
C7_InsertAndRefetch ==
    /\ last.op \in {"addPlay", "addPlay.invalid"} =>
          /\ Blank(last.input[1]) <=> last.sent = <<>>
          /\ ~Blank(last.input[1]) =>
                /\ Len(last.sent) = 1
                /\ last.sent[1].op = "addPlay.insert"
                /\ Stripped(last.input[1], last.sent[1].arg.text)
                /\ last.sent[1].arg.icon = last.input[2]
    /\ last.op = "addPlay.done" =>
          Len(last.sent) = 1 /\ last.sent[1].op = "addPlay.refresh"
    /\ last.op = "addPlay.error" => last.sent = <<>>

\* C7, as stated: ... and once the insert has succeeded and all requests have
\* completed, the local plays list contains the new play exactly once and is
\* ordered by name ascending.
C7_AsStated ==
    /\ C7_InsertAndRefetch
    /\ (inflight = <<>> /\ session # <<>>) =>
          /\ \A i \in 1..Len(dbPlays) :
                dbPlays[i].id > Len(SeededPlays) =>
                   Cardinality(Listed(plays, dbPlays[i].id)) = 1
          /\ Sorted(plays)

\* C7, amended: ... and when the response of that re-fetch is delivered
\* without error the local plays list is ordered by name ascending and, if the
\* request carried the user's session and the play has not been deleted,
\* contains the new play (the trimmed name, the selected icon) exactly once.
C7_PlayListedOnRefetch ==
    /\ C7_InsertAndRefetch
    /\ last.op = "addPlay.refreshed" =>
          /\ Sorted(plays)
          /\ (last.input.auth /\ HasPlay(last.input.play.id)) =>
                /\ Cardinality(Listed(plays, last.input.play.id)) = 1
                /\ \A k \in Listed(plays, last.input.play.id) :
                      /\ plays[k].name = last.input.play.text
                      /\ plays[k].icon = last.input.play.icon

\* The re-fetch after adding " Iso " came back: Iso is listed before Sweep.
C7_Witness ==
    /\ last.op = "addPlay.refreshed"
    /\ last.input.auth /\ HasPlay(last.input.play.id)
    /\ Len(plays) = 2
    /\ plays[1].name = <<"I", "s", "o">> /\ plays[1].icon = "deep-shot"
    /\ plays[1].id = last.input.play.id
    /\ plays[2].name = <<"S", "w", "e", "e", "p">>

\* C8: a validation failure (signUp with an empty field, addPlay with a blank
\* name, addGame with a blank opponent, recordPlayCall without a play, without
\* an active game or with a yardage text that is malformed or out of range)
\* sends no request and leaves plays, games, activeGameId, recentCalls, the
\* session and the dialog unchanged.
C8_ValidationFailureIsNoOp ==
    [][(\/ /\ last'.op \in {"signUp", "signUp.invalid"}
           /\ \E k \in 1..3 : last'.input[k] = ""
        \/ /\ last'.op \in {"addPlay", "addPlay.invalid", "addGame", "addGame.invalid"}
           /\ Blank(last'.input[1])
        \/ /\ last'.op \in {"recordPlayCall", "recordPlayCall.invalid"}
           /\ \/ yardageDialog.play = <<>>
              \/ activeGameId = 0
              \/ YardReadings(last'.input) = {})
       => /\ last'.sent = <<>>
          /\ inflight' = inflight
          /\ UNCHANGED clientVars
          /\ UNCHANGED dbVars
          /\ \E k \in 1..Len(last'.toasts) : last'.toasts[k].kind = "error"]_vars

\* Save was refused for the yardage text "100" with a play and a game selected.
C8_Witness ==
    /\ last.op = "recordPlayCall.invalid"
    /\ last.input = <<"1", "0", "0">>
    /\ yardageDialog = [open |-> TRUE, play |-> <<plays[1]>>, yards |-> <<"1", "0", "0">>]
    /\ activeGameId # 0

\* The steps at which a remote call of refreshPlays, refreshGames (stand-alone),
\* refreshRecent, addPlay, deletePlay, addGame's insert, recordPlayCall or the
\* credential check of signIn comes back with an error.
PlainErrors ==
    {"refreshPlays.error", "refreshGames.error", "refreshRecent.error", "addPlay.error",
     "deletePlay.error", "addGame.error", "recordPlayCall.error", "signIn.error"}

\* The error response is consumed and nothing of the client changes or is sent.
NotPerformed ==
    /\ UNCHANGED clientVars
    /\ last'.sent = <<>>
    /\ Len(inflight') = Len(inflight) - 1
    /\ \A j \in 1..Len(inflight') : \E k \in 1..Len(inflight) : inflight'[j] = inflight[k]

\* C9, as stated: whenever one of these remote calls returns an error
\* (addGame's own refreshGames included), plays, games, activeGameId,
\* recentCalls, the session and the dialog are as before the response and the
\* operation issues no follow-up refresh.
C9_AsStated ==
    [][last'.op \in PlainErrors \cup {"addGame.refreshError"} => NotPerformed]_vars

\* C9, amended: ... except when the refreshGames that addGame awaits fails
\* after a successful insert: games is unchanged, but addGame still makes the
\* created game the active game, and that change makes the data-loading
\* effect issue its refreshes.
C9_ErrorsLeaveState ==
    [][/\ last'.op \in PlainErrors => NotPerformed
       /\ last'.op = "addGame.refreshError" =>
             /\ UNCHANGED <<session, plays, games, recentCalls, yardageDialog>>
             /\ activeGameId' = last'.input.id
             /\ last'.sent = LoadEffect(activeGameId' # activeGameId, session,
                                        activeGameId', HasAuth)]_vars

\* A stand-alone refresh of games failed with games listed and a game active.
C9_Witness ==
    /\ last.op = "refreshGames.error"
    /\ games # <<>>
    /\ activeGameId # 0
    /\ plays # <<>>

\* C10: every failed backend request, a failed refresh of plays, of games and
\* of recent calls included, raises an error notification.
C10_EveryFailureNotified ==
    last.op \in PlainErrors \cup {"addGame.refreshError", "signUp.error", "signIn.profileIssue"} =>
       \E k \in 1..Len(last.toasts) : last.toasts[k].kind = "error"

UpsertsIn(q) == {j \in 1..Len(q) : q[j].op = "signIn.upsert"}
RefreshesIn(q) ==
    {j \in 1..Len(q) : q[j].op \in {"refreshPlays", "refreshGames", "refreshRecent"}}

\* What signIn does when the credential check fails and when the upsert has
\* responded: nothing is sent after a failed check; the refreshes of plays and
\* games are sent at the upsert's response, failed or not; a failed upsert
\* raises a warning and the session is untouched.
SignInEnds ==
    /\ last'.op = "signIn.error" =>
          /\ last'.sent = <<>>
          /\ Len(inflight') = Len(inflight) - 1
          /\ UNCHANGED <<session, authStore>>
    /\ last'.op \in {"signIn.done", "signIn.profileIssue"} =>
          /\ Len(last'.sent) = 2
          /\ last'.sent[1].op = "refreshPlays" /\ last'.sent[2].op = "refreshGames"
          /\ UNCHANGED <<session, authStore>>
    /\ last'.op = "signIn.profileIssue" =>
          \E k \in 1..Len(last'.toasts) : last'.toasts[k].kind = "error"

\* C11, as stated: signIn issues no upsert and no refresh when the credential
\* check fails; when it succeeds with a user, exactly one profile upsert keyed
\* by the user id is issued, with the entered team name or "My Team" if the
\* name is blank, and no refresh of plays or games is issued before the upsert
\* has responded; a failed upsert raises a warning only.
C11_AsStated ==
    [][/\ SignInEnds
       /\ last'.op = "signIn.welcome" =>
             /\ session' = <<User>>
             /\ Cardinality(UpsertsIn(last'.sent)) = 1
             /\ \A j \in UpsertsIn(last'.sent) :
                   /\ last'.sent[j].arg.user = User
                   /\ last'.sent[j].arg.team =
                         (IF Blank(last'.input) THEN MyTeam ELSE last'.input)
             /\ RefreshesIn(last'.sent) = {}]_vars

\* C11, amended: ... with the entered team name, or "My Team" if the name is
\* empty (a name of white space is sent as entered); the step that receives
\* the successful check sends the upsert and, beside it, the refreshes of the
\* data-loading effect that the new session starts (plays, games and, with an
\* active game, recent calls) and nothing else; signIn's own refreshes of
\* plays and games are issued at the upsert's response and not before.
C11_SignIn ==
    [][/\ SignInEnds
       /\ last'.op = "signIn.welcome" =>
             /\ session' = <<User>>
             /\ Cardinality(UpsertsIn(last'.sent)) = 1
             /\ \A j \in UpsertsIn(last'.sent) :
                   /\ last'.sent[j].arg.user = User
                   /\ last'.sent[j].arg.team =
                         (IF last'.input = <<>> THEN MyTeam ELSE last'.input)
             /\ SubSeq(last'.sent, 2, Len(last'.sent))
                   = LoadEffect(TRUE, session', activeGameId, TRUE)]_vars

\* A sign-in with a team name of one space succeeded: the upsert carries the
\* space, and the refreshes of plays and games that the new session starts
\* have been sent with it.
C11_Witness ==
    /\ last.op = "signIn.welcome"
    /\ session = <<User>>
    /\ last.input = <<" ">>
    /\ \E j \in UpsertsIn(last.sent) : last.sent[j].arg.team = <<" ">>
    /\ \E j \in RefreshesIn(last.sent) : last.sent[j].op = "refreshPlays"
    /\ \E j \in RefreshesIn(last.sent) : last.sent[j].op = "refreshGames"

\* The upsert of a sign-in failed: the warning is shown, the refreshes of
\* plays and games are issued, the session stands.
C11_ProfileIssue ==
    /\ last.op = "signIn.profileIssue"
    /\ session = <<User>>
    /\ \E j \in RefreshesIn(last.sent) : last.sent[j].op = "refreshPlays"
    /\ \E j \in RefreshesIn(last.sent) : last.sent[j].op = "refreshGames"

\* C12: a games refresh that succeeds with a non-empty list while no game is
\* active makes the first game of the list active, and one that is applied
\* while a game is active leaves the selection unchanged.
C12_RefreshKeepsSelection ==
    [][last'.op = "refreshGames.done" =>
          /\ games' = last'.input.res
          /\ (activeGameId = 0 /\ last'.input.res # <<>>) =>
                activeGameId' = last'.input.res[1].id
          /\ activeGameId # 0 => activeGameId' = activeGameId]_vars

\* The rows of a recent-calls list that are calls of this play, which the
\* cascade has removed.
CallsListed(rows, id) ==
    {k \in 1..Len(rows) : \E g \in dbGone : g.play_id = id /\ g.id = rows[k].id}

\* The plays this client has deleted.
DeletedPlays == {id \in 1..dbSeq.play : ~HasPlay(id)}

\* C13, as stated: after a confirmed deletePlay whose delete succeeds a plays
\* refresh and a recent-calls refresh are both issued, and once all requests
\* have completed successfully the local plays list does not contain the
\* deleted play and recentCalls contains no call of it.
C13_AsStated ==
    /\ last.op = "deletePlay.done" =>
          /\ \E j \in 1..Len(last.sent) : last.sent[j].op = "deletePlay.refreshPlays"
          /\ \E j \in 1..Len(last.sent) : last.sent[j].op = "deletePlay.refreshRecent"
    /\ (inflight = <<>> /\ ~anyError) =>
          \A id \in DeletedPlays :
             Listed(plays, id) = {} /\ CallsListed(recentCalls, id) = {}

\* C13, amended: after a confirmed deletePlay whose delete succeeds a plays
\* refresh is issued, and a recent-calls refresh for the game that was active
\* when Delete was clicked, none when no game was active then; nothing is
\* issued when the delete fails.  When the response of that plays refresh is
\* applied the local plays list is that response and does not contain the
\* deleted play, and when the response of that recent-calls refresh is applied
\* recentCalls is that response and contains no call of the deleted play.
C13_DeleteRefreshes ==
    /\ last.op = "deletePlay.done" =>
          /\ Len(last.sent) \in {1, 2}
          /\ last.sent[1].op = "deletePlay.refreshPlays"
          /\ Len(last.sent) = 1 <=> last.sent[1].ag = 0
          /\ Len(last.sent) = 2 =>
                /\ last.sent[2].op = "deletePlay.refreshRecent"
                /\ last.sent[2].ag = last.sent[1].ag
          /\ ~HasPlay(last.input.id)
    /\ last.op = "deletePlay.error" => last.sent = <<>>
    /\ last.op = "deletePlay.playsRefreshed" =>
          /\ plays = last.input.res
          /\ Listed(plays, last.input.arg.id) = {}
    /\ last.op = "deletePlay.recentRefreshed" =>
          /\ recentCalls = last.input.res
          /\ last.input.ag # 0
          /\ CallsListed(recentCalls, last.input.arg.id) = {}

\* Sweep, with its one call in the active game, was deleted from the dialog:
\* both refreshes came back and neither list shows it any more.
C13_Witness ==
    /\ last.op = "deletePlay.recentRefreshed"
    /\ \E g \in dbGone : g.play_id = last.input.arg.id /\ g.game_id = last.input.ag
    /\ activeGameId = last.input.ag
    /\ recentCalls = <<>> /\ plays = <<>>
    /\ inflight = <<>> /\ ~anyError

\* Recent-call rows of one game, newest first.
OneGame(rows) == \A j, k \in 1..Len(rows) : rows[j].game_id = rows[k].game_id
NewestFirst(rows) == \A j, k \in 1..Len(rows) : j < k => rows[j].created_at > rows[k].created_at

\* The calls of game g the table holds.
TableCalls(g) == {dbCalls[k].id : k \in {j \in 1..Len(dbCalls) : dbCalls[j].game_id = g}}

\* rows are the newest calls of game g in the table, as many as the limit allows.
NewestOf(rows, g) ==
    LET got == {rows[k].id : k \in 1..Len(rows)}
    IN  /\ got \subseteq TableCalls(g)
        /\ Cardinality(got) = Len(rows)
        /\ \A a \in TableCalls(g) \ got :
              Len(rows) = RecentLimit /\ \A b \in got : a < b

\* The backend answers request i in this step.
Answered(i) ==
    /\ i \in 1..Len(inflight)
    /\ inflight[i].st = "sent"
    /\ Len(inflight') = Len(inflight)
    /\ inflight'[i].st = "ok"
    /\ inflight' = [inflight EXCEPT ![i] = inflight'[i]]

\* C14, as stated: recentCalls never holds more than 10 entries, and whenever a
\* session exists and no request is in flight its entries are the newest calls
\* of the active game, in descending creation order.
C14_AsStated ==
    /\ Len(recentCalls) <= 10
    /\ (session # <<>> /\ inflight = <<>>) =>
          /\ \A k \in 1..Len(recentCalls) : recentCalls[k].game_id = activeGameId
          /\ NewestFirst(recentCalls)
          /\ NewestOf(recentCalls, activeGameId)

\* C14, amended: recentCalls never holds more than 10 entries, its entries are
\* calls of one game in descending creation order, and every recent-calls
\* refresh the backend answers to a signed-in client returns the newest calls
\* (at most 10) of the game of the closure that issued it: the game that was
\* active at the click on Save or Delete for the refresh that follows the
\* insert or the delete, the game of the render whose effect ran for the
\* others.  The response that is applied replaces recentCalls with exactly
\* those rows, whichever game is active then.
C14_RecentCalls ==
    /\ [](/\ Len(recentCalls) <= 10
          /\ OneGame(recentCalls)
          /\ NewestFirst(recentCalls)
          /\ last.op \in {"refreshRecent.done", "deletePlay.recentRefreshed",
                          "recordPlayCall.refreshed"} =>
                /\ recentCalls = last.input.res
                /\ \A k \in 1..Len(recentCalls) : recentCalls[k].game_id = last.input.ag)
    /\ [][\A i \in 1..Len(inflight) :
             (Answered(i) /\ inflight[i].op \in RecentRefreshes /\ inflight[i].auth) =>
                /\ NewestFirst(inflight'[i].res)
                /\ NewestOf(inflight'[i].res, inflight[i].ag)]_vars

\* Game 1 has 11 calls.  The user saved a twelfth, closed the dialog and
\* selected game 2 while the insert was in flight; the refresh that followed
\* the insert came back last, with the 10 newest calls of game 1, the new one
\* first: nothing is in flight, game 2 is active, game 1 is shown.
C14_Witness ==
    /\ last.op = "recordPlayCall.refreshed"
    /\ session # <<>> /\ inflight = <<>> /\ ~anyError
    /\ activeGameId = 2 /\ last.input.ag = 1
    /\ Cardinality(TableCalls(1)) = RecentLimit + 2
    /\ Len(recentCalls) = RecentLimit
    /\ recentCalls[1].id = dbSeq.call /\ recentCalls[RecentLimit].id = 3

\* The labels of the refreshes of each collection that succeeded.
PlaysRefreshed == {"refreshPlays.done", "deletePlay.playsRefreshed"}
GamesRefreshed == {"refreshGames.done"}
RecentRefreshed == {"refreshRecent.done", "deletePlay.recentRefreshed", "recordPlayCall.refreshed"}

\* C15: a successful refresh response is applied when it arrives, whether or
\* not the response of a refresh of the same collection that was issued later
\* has been applied already: the collection becomes the rows of the response.
C15_AppliedInArrivalOrder ==
    /\ last.op \in PlaysRefreshed => plays = last.input.res
    /\ last.op \in GamesRefreshed => games = last.input.res
    /\ last.op \in RecentRefreshed => recentCalls = last.input.res

\* The plays refresh the effect issued came back after the one addPlay issued:
\* every request succeeded, nothing is in flight, and the local list lacks the
\* play the backend holds.
C15_Witness ==
    /\ last.op = "refreshPlays.done" /\ last.input.old
    /\ session # <<>> /\ last.input.auth
    /\ inflight = <<>> /\ ~anyError
    /\ plays = last.input.res
    /\ plays # SelectPlays

\* The same for games and for recent calls.
C15_WitnessGames ==
    /\ last.op = "refreshGames.done" /\ last.input.old
    /\ session # <<>> /\ last.input.auth
    /\ inflight = <<>> /\ ~anyError
    /\ games # SelectGames

C15_WitnessRecent ==
    /\ last.op = "refreshRecent.done" /\ last.input.old
    /\ session # <<>> /\ last.input.auth
    /\ inflight = <<>> /\ ~anyError
    /\ activeGameId = last.input.ag
    /\ recentCalls # SelectRecent(activeGameId)

\* Where recentCalls holds the call with this id.
CallListed(id) == {k \in 1..Len(recentCalls) : recentCalls[k].id = id}

\* The call records persisted so far, those the cascade removed included.
CallsEver == {dbCalls[k] : k \in 1..Len(dbCalls)} \cup dbGone

\* The calls of the game of refresh t that were recorded after the call t
\* carries, those the cascade removed included.
LaterCalls(t) == {c \in CallsEver : c.game_id = t.ag /\ c.id > t.arg.id}

\* recordPlayCall around its insert: Save sends the insert alone; its success
\* resets the dialog and then sends one recent-calls refresh, for the game the
\* call was recorded in; its failure sends nothing and leaves the dialog alone.
C16_InsertThenRefresh ==
    [][/\ last'.op = "recordPlayCall" =>
             Len(last'.sent) = 1 /\ last'.sent[1].op = "recordPlayCall.insert"
       /\ last'.op = "recordPlayCall.done" =>
             /\ yardageDialog' = [open |-> FALSE, play |-> <<>>, yards |-> <<"0">>]
             /\ Len(last'.sent) = 1
             /\ last'.sent[1].op = "recordPlayCall.refresh"
             /\ last'.sent[1].ag = last'.input.gid
             /\ \E c \in CallsEver :
                   /\ c.id = last'.sent[1].arg.id
                   /\ c.play_id = last'.input.id
                   /\ c.game_id = last'.input.gid
                   /\ c.yards = last'.input.yards
       /\ last'.op = "recordPlayCall.error" =>
             /\ yardageDialog' = yardageDialog
             /\ last'.sent = <<>>]_vars

\* C16, as stated: when the insert succeeds the dialog is reset and one
\* recent-calls refresh is issued, after the insert's response and for the
\* game that is active then; once that refresh succeeds the newly recorded
\* call is the first entry of recentCalls.  When the insert fails the dialog
\* is left alone and no refresh is issued.
C16_AsStated ==
    /\ C16_InsertThenRefresh
    /\ [][last'.op = "recordPlayCall.done" =>
             \A k \in 1..Len(last'.sent) : last'.sent[k].ag = activeGameId']_vars
    /\ [](last.op = "recordPlayCall.refreshed" =>
             /\ recentCalls # <<>>
             /\ recentCalls[1].id = last.input.arg.id)

\* C16, amended: when the insert succeeds the dialog is reset and one
\* recent-calls refresh is issued, after the insert's response and for the
\* game that was active when Save was clicked; once that refresh succeeds
\* recentCalls is its response.  If the request carried the user's session,
\* the call has not been removed with its play and fewer than 10 calls of that
\* game were recorded after it, the list contains the new call once, with the
\* yards entered and with no more entries ahead of it than calls of that game
\* were recorded after it: it is the first entry when there was none.  When
\* the insert fails the dialog is left alone and no refresh is issued.
C16_RecordedCallListed ==
    /\ C16_InsertThenRefresh
    /\ [](last.op = "recordPlayCall.refreshed" =>
             /\ recentCalls = last.input.res
             /\ (/\ last.input.auth
                 /\ \A g \in dbGone : g.id # last.input.arg.id
                 /\ Cardinality(LaterCalls(last.input)) < RecentLimit) =>
                   /\ Cardinality(CallListed(last.input.arg.id)) = 1
                   /\ \A k \in CallListed(last.input.arg.id) :
                         /\ recentCalls[k].yards = last.input.arg.yards
                         /\ recentCalls[k].game_id = last.input.ag
                         /\ k <= Cardinality(LaterCalls(last.input)) + 1)

\* The first call saved was followed by RecentLimit - 1 more calls of game 1
\* before its refresh was answered: the refresh came back with the call as the
\* last of its RecentLimit entries, the seeded call left out.
C16_Witness ==
    /\ last.op = "recordPlayCall.refreshed"
    /\ last.input.auth /\ dbGone = {}
    /\ last.input.arg.id = Len(SeededCalls) + 1
    /\ Cardinality(LaterCalls(last.input)) = RecentLimit - 1
    /\ Len(recentCalls) = RecentLimit
    /\ recentCalls[RecentLimit].id = last.input.arg.id
    /\ recentCalls[RecentLimit].yards = 0
    /\ recentCalls[1].id = dbSeq.call

\* One call more was saved before the answer: the refresh of the first call
\* succeeded with the user's session and the list does not hold the call.
C16_PushedOut ==
    /\ last.op = "recordPlayCall.refreshed"
    /\ last.input.auth /\ dbGone = {}
    /\ Cardinality(LaterCalls(last.input)) = RecentLimit
    /\ Len(recentCalls) = RecentLimit
    /\ CallListed(last.input.arg.id) = {}

\* The user closed the dialog and selected game 2 between the click on Save and
\* the insert's response: the refresh is issued for game 1.
C16_OtherGame ==
    /\ last.op = "recordPlayCall.done"
    /\ activeGameId = 2
    /\ last.sent[1].ag = 1 /\ last.input.gid = 1

\* The session ended elsewhere between the click on Save and the insert's
\* response: the refresh went out without the user's session and succeeded
\* with no rows.
C16_SignedOut ==
    /\ last.op = "recordPlayCall.refreshed"
    /\ ~last.input.auth /\ dbGone = {}
    /\ \E c \in CallsEver : c.id = last.input.arg.id
    /\ recentCalls = <<>>

\* C17: the dialog is closed or open; it opens only by a tap on a listed play,
\* which selects that play and resets the yards input to "0"; it closes only
\* by Cancel (which also clears the play and the yards), by the success of a
\* Save's insert (the same reset) or by an outside click (which keeps them);
\* and whenever it is open a play is selected.
C17_DialogStates ==
    /\ [](/\ yardageDialog.open \in BOOLEAN
          /\ yardageDialog.open => yardageDialog.play # <<>>)
    /\ [][/\ (~yardageDialog.open /\ yardageDialog'.open) =>
                /\ \E k \in 1..Len(plays) : yardageDialog'.play = <<plays[k]>>
                /\ yardageDialog'.yards = <<"0">>
                /\ last'.op = "-" /\ inflight' = inflight
          /\ (yardageDialog.open /\ ~yardageDialog'.open) =>
                \/ /\ last'.op = "recordPlayCall.done"
                   /\ yardageDialog'.play = <<>> /\ yardageDialog'.yards = <<"0">>
                \/ /\ last'.op = "-" /\ inflight' = inflight
                   /\ yardageDialog'.play = <<>> /\ yardageDialog'.yards = <<"0">>
                \/ /\ last'.op = "-" /\ inflight' = inflight
                   /\ yardageDialog'.play = yardageDialog.play
                   /\ yardageDialog'.yards = yardageDialog.yards]_vars

\* The dialog was opened on Sweep, 100 was typed, and an outside click closed
\* it: it is closed and still holds the play and the text.
C17_Witness ==
    /\ ~yardageDialog.open
    /\ yardageDialog.play # <<>>
    /\ yardageDialog.play[1].name = <<"S", "w", "e", "e", "p">>
    /\ yardageDialog.yards = <<"1", "0", "0">>

\* The plays whose deletion by this client has succeeded and been reported.
DeleteReported ==
    {id \in DeletedPlays :
        \A j \in 1..Len(inflight) :
           ~(inflight[j].op = "deletePlay.delete" /\ inflight[j].arg.id = id)}

\* C18: once a deletePlay started from the dialog has succeeded the dialog no
\* longer offers the deleted play, and Save never sends an insert for a play
\* this client has already deleted.
C18_DialogPlayExists ==
    /\ [](\A id \in DeleteReported :
             ~(yardageDialog.open /\ yardageDialog.play # <<>>
               /\ yardageDialog.play[1].id = id))
    /\ [][last'.op = "recordPlayCall" =>
             last'.sent[1].arg.id \notin DeleteReported]_vars

\* C20: one opening of the dialog persists at most one call record: a Save
\* clicked while the insert of an earlier Save is in flight sends no second
\* insert.  (SpecDialog is one opening: the dialog starts open and no play is
\* tapped again.)
C20_OneInsertPerOpening ==
    /\ [](Cardinality(CallsEver) <= Len(SeededCalls) + 1)
    /\ [][last'.op = "recordPlayCall" =>
             \A j \in 1..Len(inflight) : inflight[j].op # "recordPlayCall.insert"]_vars

\* The collections signOut clears are empty and no game is active.
Cleared == plays = <<>> /\ games = <<>> /\ recentCalls = <<>> /\ activeGameId = 0

\* C19: once signOut has completed, and while no session exists, plays, games
\* and recentCalls stay empty and no game is active, whatever responses
\* arrive.
C19_StaysCleared ==
    /\ [](last.op = "signOut.done" => Cleared)
    /\ [][(session = <<>> /\ session' = <<>> /\ Cleared) => Cleared']_vars

=============================================================================
